---- MODULE Spec2Model ----
(***************************************************************************)
(* thor-validation: a rule tree is compiled by `new Schema(rule)` into a   *)
(* tree of validator closures; `schema.validate(input)` then returns or    *)
(* throws.  The model follows src/src/index.ts.                            *)
(*                                                                         *)
(* JavaScript values are records tagged by `t`.  A JS string is a sequence *)
(* of one-character strings (its length and its characters are inspected   *)
(* by the code); error messages are TLA+ strings built with \o.            *)
(* A Date is its timestamp counted in whole days since 1970-01-01 (every   *)
(* date of the model is a midnight-UTC date, so the order of the           *)
(* millisecond timestamps is the order of the day numbers).                *)
(***************************************************************************)
EXTENDS Integers, Sequences, FiniteSets, TLC

(***************************************************************************)
(* Bounds of the model.                                                    *)
(***************************************************************************)
MaxNum == 4
MaxArrLen == 4

(***************************************************************************)
(* JavaScript values.                                                      *)
(***************************************************************************)
Undef == [t |-> "undefined"]
Null == [t |-> "null"]
Num(n) == [t |-> "number", v |-> n, nan |-> FALSE]
NaN == [t |-> "number", v |-> 0, nan |-> TRUE]
\* Infinity: a number that is not NaN and is greater than every number a rule
\* or an input of the model holds
Infinity == [t |-> "number", v |-> 1000000, nan |-> FALSE]
Str(cs) == [t |-> "string", v |-> cs]
Bool(b) == [t |-> "boolean", v |-> b]
DateV(d) == [t |-> "date", v |-> d, nan |-> FALSE]
InvalidDate == [t |-> "date", v |-> 0, nan |-> TRUE]
Arr(items) == [t |-> "array", v |-> items]
Obj(keys, vals) == [t |-> "object", k |-> keys, v |-> vals]
Func == [t |-> "function"]
\* a RegExp object /pat/flag, as the caller builds it
RegExpObject(pat, flag) == [t |-> "regexp", pat |-> pat, flag |-> flag, lastIndex |-> 0]

IsNullish(x) == x.t = "undefined" \/ x.t = "null"

\* typeof x
TypeOf(x) ==
    IF x.t \in {"null", "array", "date", "regexp"} THEN "object" ELSE x.t

getInputType(x) ==
    IF x.t = "array" THEN "array"
    ELSE IF x.t = "date" THEN "date"
    ELSE TypeOf(x)

\* isNaN(x) for the values the code passes to it (numbers and timestamps)
IsNaN(x) ==
    CASE x.t = "number" -> x.nan
      [] x.t = "date" -> x.nan
      [] x.t = "undefined" -> TRUE
      [] x.t \in {"null", "boolean"} -> FALSE
      [] x.t = "string" -> x.v # <<>>
      [] OTHER -> TRUE

RECURSIVE ChStr(_)
\* the TLA+ string spelling a JS string
ChStr(cs) == IF cs = <<>> THEN "" ELSE Head(cs) \o ChStr(Tail(cs))

NumStr(n) == ToString(n)

RECURSIVE JoinStr(_, _)
JoinStr(ss, sep) ==
    IF ss = <<>> THEN ""
    ELSE IF Len(ss) = 1 THEN ss[1]
    ELSE ss[1] \o sep \o JoinStr(Tail(ss), sep)

RECURSIVE ValStr(_)
\* `${x}`: the string a template literal makes of a value
ValStr(x) ==
    CASE x.t = "undefined" -> "undefined"
      [] x.t = "null" -> "null"
      [] x.t = "number" -> IF x.nan THEN "NaN" ELSE IF x = Infinity THEN "Infinity" ELSE NumStr(x.v)
      [] x.t = "string" -> ChStr(x.v)
      [] x.t = "boolean" -> IF x.v THEN "true" ELSE "false"
      [] x.t = "date" -> IF x.nan THEN "Invalid Date" ELSE "Date(" \o NumStr(x.v) \o ")"
      [] x.t = "array" -> JoinStr([i \in 1..Len(x.v) |->
                                     IF IsNullish(x.v[i]) THEN "" ELSE ValStr(x.v[i])], ",")
      [] x.t = "object" -> "[object Object]"
      [] OTHER -> "function () {}"

\* JS truthiness
Truthy(x) ==
    CASE x.t \in {"undefined", "null"} -> FALSE
      [] x.t = "number" -> ~x.nan /\ x.v # 0
      [] x.t = "string" -> x.v # <<>>
      [] x.t = "boolean" -> x.v
      [] OTHER -> TRUE

(***************************************************************************)
(* new Date(string): the date-only ISO form YYYY-MM-DD is parsed to the    *)
(* day number of that UTC midnight; a string of another form used by the   *)
(* model (empty, or containing a letter) is an Invalid Date.               *)
(***************************************************************************)
Digits == <<"0", "1", "2", "3", "4", "5", "6", "7", "8", "9">>
IsDigit(c) == \E i \in 1..10 : Digits[i] = c
DigitVal(c) == (CHOOSE i \in 1..10 : Digits[i] = c) - 1

RECURSIVE DecVal(_)
DecVal(cs) == IF cs = <<>> THEN 0 ELSE DecVal(SubSeq(cs, 1, Len(cs) - 1)) * 10 + DigitVal(cs[Len(cs)])

IsLeap(y) == (y % 4 = 0 /\ y % 100 # 0) \/ y % 400 = 0
DaysInMonth(y, m) ==
    IF m = 2 THEN (IF IsLeap(y) THEN 29 ELSE 28)
    ELSE IF m \in {4, 6, 9, 11} THEN 30 ELSE 31

\* days from 1970-01-01 to y-m-d (proleptic Gregorian calendar)
DaysFromCivil(y, m, d) ==
    LET yy == IF m <= 2 THEN y - 1 ELSE y
        era == yy \div 400
        yoe == yy - era * 400
        mp == (m + 9) % 12
        doy == (153 * mp + 2) \div 5 + d - 1
        doe == yoe * 365 + yoe \div 4 - yoe \div 100 + doy
    IN  era * 146097 + doe - 719468

ParseDate(cs) ==
    IF /\ Len(cs) = 10
       /\ cs[5] = "-" /\ cs[8] = "-"
       /\ \A i \in {1, 2, 3, 4, 6, 7, 9, 10} : IsDigit(cs[i])
    THEN LET y == DecVal(SubSeq(cs, 1, 4))
             m == DecVal(SubSeq(cs, 6, 7))
             d == DecVal(SubSeq(cs, 9, 10))
         IN  IF m \in 1..12 /\ d >= 1 /\ d <= DaysInMonth(y, m)
             THEN DateV(DaysFromCivil(y, m, d))
             ELSE InvalidDate
    ELSE InvalidDate

\* new Date(x) for x a string or a Date (the only arguments the code passes)
NewDate(x) ==
    CASE x.t = "string" -> ParseDate(x.v)
      [] x.t = "date" -> x
      [] OTHER -> InvalidDate

(***************************************************************************)
(* Regular expressions.  `new RegExp(body, flags)` and `exp.test(s)` are   *)
(* modelled for the bodies the model uses: an optional leading ^, atoms    *)
(* (a lower-case letter or digit, `.`, `\d`, `\/`), each optionally        *)
(* followed by +, and an optional trailing $.  A body with a dangling +,   *)
(* an unbalanced parenthesis or a trailing backslash is a syntax error, as *)
(* is a flag outside dgimsuy or a repeated flag.  The strings of the model *)
(* hold no upper-case letter and no line break, so the flags i, m, s, u    *)
(* and d do not change a match; g and y make the matcher keep lastIndex.   *)
(***************************************************************************)
LitChars == {"a", "b", "c", "d", "0", "1", "2", "3", "4", "5", "6", "7", "8", "9"}
FlagChars == {"d", "g", "i", "m", "s", "u", "y"}

\* the index of the last "/" of cs, 0 if there is none
LastSlash(cs) ==
    LET js == {j \in 1..Len(cs) : cs[j] = "/"}
    IN  IF js = {} THEN 0 ELSE CHOOSE j \in js : \A k \in js : k <= j

\* regex.match(/^\/(.+)\/(.*)$/): m[1] is the body, m[2] the flags
MatchLiteral(cs) ==
    LET j == LastSlash(cs)
    IN  IF Len(cs) >= 3 /\ cs[1] = "/" /\ j >= 3
        THEN [ok |-> TRUE, pat |-> SubSeq(cs, 2, j - 1), flag |-> SubSeq(cs, j + 1, Len(cs))]
        ELSE [ok |-> FALSE, pat |-> <<>>, flag |-> <<>>]

FlagsValid(fs) ==
    /\ \A i \in 1..Len(fs) : fs[i] \in FlagChars
    /\ \A i, j \in 1..Len(fs) : i # j => fs[i] # fs[j]

RECURSIVE ParseAtoms(_, _)
\* the atoms of a body without its anchors; ok = FALSE on a syntax error
ParseAtoms(cs, acc) ==
    IF cs = <<>> THEN [ok |-> TRUE, atoms |-> acc]
    ELSE LET c == cs[1]
             base == IF c \in LitChars THEN [ok |-> TRUE, n |-> 1, a |-> [cls |-> "lit", ch |-> c]]
                     ELSE IF c = "." THEN [ok |-> TRUE, n |-> 1, a |-> [cls |-> "any", ch |-> c]]
                     ELSE IF c = "\\" /\ Len(cs) >= 2 /\ cs[2] = "d"
                          THEN [ok |-> TRUE, n |-> 2, a |-> [cls |-> "digit", ch |-> "d"]]
                     ELSE IF c = "\\" /\ Len(cs) >= 2 /\ cs[2] = "/"
                          THEN [ok |-> TRUE, n |-> 2, a |-> [cls |-> "lit", ch |-> "/"]]
                     ELSE [ok |-> FALSE, n |-> 0, a |-> [cls |-> "lit", ch |-> c]]
         IN  IF ~base.ok THEN [ok |-> FALSE, atoms |-> <<>>]
             ELSE LET plus == Len(cs) > base.n /\ cs[base.n + 1] = "+"
                      used == IF plus THEN base.n + 1 ELSE base.n
                  IN  ParseAtoms(SubSeq(cs, used + 1, Len(cs)),
                                 Append(acc, [cls |-> base.a.cls, ch |-> base.a.ch, plus |-> plus]))

\* new RegExp(pat, flag): ok = FALSE when it throws a SyntaxError
NewRegExp(pat, flag) ==
    LET anchS == pat # <<>> /\ pat[1] = "^"
        p1 == IF anchS THEN Tail(pat) ELSE pat
        anchE == p1 # <<>> /\ p1[Len(p1)] = "$"
                    /\ ~(Len(p1) >= 2 /\ p1[Len(p1) - 1] = "\\")
        p2 == IF anchE THEN SubSeq(p1, 1, Len(p1) - 1) ELSE p1
        pa == ParseAtoms(p2, <<>>)
    IN  IF pa.ok /\ FlagsValid(flag)
        THEN [ok |-> TRUE, anchS |-> anchS, anchE |-> anchE, atoms |-> pa.atoms,
              flags |-> {flag[i] : i \in 1..Len(flag)},
              src |-> "/" \o ChStr(pat) \o "/" \o ChStr(flag)]
        ELSE [ok |-> FALSE]

AtomMatches(a, c) ==
    CASE a.cls = "lit" -> c = a.ch
      [] a.cls = "digit" -> IsDigit(c)
      [] OTHER -> TRUE

\* how many characters of s from position p on match atom a
RECURSIVE RunLen(_, _, _)
RunLen(a, s, p) ==
    IF p <= Len(s) /\ AtomMatches(a, s[p]) THEN 1 + RunLen(a, s, p + 1) ELSE 0

RECURSIVE MatchAt(_, _, _, _, _)
RECURSIVE TryPlus(_, _, _, _, _, _)
\* the position after the match of atoms[i..] at position p of s, 0 if none
\* (backtracking in the engine's order: a + takes the most it can first)
MatchAt(atoms, i, s, p, anchE) ==
    IF i > Len(atoms) THEN (IF anchE /\ p # Len(s) + 1 THEN 0 ELSE p)
    ELSE IF atoms[i].plus THEN TryPlus(atoms, i, s, p, anchE, RunLen(atoms[i], s, p))
    ELSE IF p <= Len(s) /\ AtomMatches(atoms[i], s[p]) THEN MatchAt(atoms, i + 1, s, p + 1, anchE)
    ELSE 0

TryPlus(atoms, i, s, p, anchE, k) ==
    IF k = 0 THEN 0
    ELSE LET r == MatchAt(atoms, i + 1, s, p + k, anchE)
         IN  IF r # 0 THEN r ELSE TryPlus(atoms, i, s, p, anchE, k - 1)

\* exp.test(s) with exp.lastIndex = li: the result and the new lastIndex
RegExpTest(exp, s, li) ==
    LET keep == exp.flags \cap {"g", "y"} # {}
        from == IF keep THEN li ELSE 0
        starts == IF from > Len(s) THEN {}
                  ELSE IF "y" \in exp.flags THEN {from}
                  ELSE from..Len(s)
        hits == {q \in starts : (exp.anchS => q = 0)
                                  /\ MatchAt(exp.atoms, 1, s, q + 1, exp.anchE) # 0}
    IN  IF hits = {} THEN [found |-> FALSE, lastIndex |-> IF keep THEN 0 ELSE li]
        ELSE LET q == CHOOSE h \in hits : \A g \in hits : h <= g
                 e == MatchAt(exp.atoms, 1, s, q + 1, exp.anchE)
             IN  [found |-> TRUE, lastIndex |-> IF keep THEN e - 1 ELSE li]


(***************************************************************************)
(* Rule descriptors: the records the factory functions build.  A rule is a *)
(* record with a `type` field; an optional message argument is a sequence  *)
(* of at most one string (<<>> when the caller passes none).               *)
(***************************************************************************)
NoMsg == <<>>

fill(info, message) ==
    IF message = <<>> THEN info
    ELSE [f \in DOMAIN info \cup {"message"} |-> IF f = "message" THEN message[1] ELSE info[f]]

equal(value, message) == fill([type |-> "equal", value |-> value], message)
min(value, message) == fill([type |-> "min", value |-> value], message)
max(value, message) == fill([type |-> "max", value |-> value], message)
range(lo, hi, message) == fill([type |-> "range", min |-> lo, max |-> hi], message)
less(value, message) == fill([type |-> "less", value |-> value], message)
more(value, message) == fill([type |-> "more", value |-> value], message)
before(value, message) == fill([type |-> "before", value |-> value], message)
after(value, message) == fill([type |-> "after", value |-> value], message)
begin(value, message) == fill([type |-> "begin", value |-> value], message)
end(value, message) == fill([type |-> "end", value |-> value], message)
between(b, e, message) == fill([type |-> "between", begin |-> b, end |-> e], message)
pattern(regex, message) == fill([type |-> "pattern", regex |-> regex], message)
need(rule, message) == fill([type |-> "need", rule |-> rule], message)
mismatch(message) == fill([type |-> "mismatch"], message)
item(rule) == [type |-> "item", rule |-> rule]
prop(name, rule) == [type |-> "prop", name |-> name, rule |-> rule]
any(rules) == [type |-> "any", rules |-> rules]
union(rules) == [type |-> "union", rules |-> rules]
object(rules) == [type |-> "object", rules |-> rules]
boolean(rules) == [type |-> "boolean", rules |-> rules]
number(rules) == [type |-> "number", rules |-> rules]
string(rules) == [type |-> "string", rules |-> rules]
date(rules) == [type |-> "date", rules |-> rules]
array(rules) == [type |-> "array", rules |-> rules]

\* a position that should hold a rule may hold null, undefined or another value
IsJsValue(r) == "t" \in DOMAIN r
RuleFalsy(r) == IsJsValue(r) /\ ~Truthy(r)
\* rule.type, "" standing for a missing (undefined) type
RuleType(r) == IF "type" \in DOMAIN r THEN r.type ELSE ""
\* rule.message is truthy
HasMessage(r) == "message" \in DOMAIN r /\ r.message # ""
RuleTypeOf(r) == IF IsJsValue(r) THEN TypeOf(r) ELSE "object"

(***************************************************************************)
(* Compilation.  A maker returns [err |-> TRUE, msg |-> m] when it throws  *)
(* SchemaError(m), else [err |-> FALSE, v |-> closure]; a closure is a     *)
(* record of the function it is (`fn`) and the variables it captured.      *)
(***************************************************************************)
Fail(m) == [err |-> TRUE, msg |-> m]
Made(v) == [err |-> FALSE, v |-> v]

\* the list with the kind prop added to it
NeedKindsAndProp == {"need", "object", "string", "number", "array", "boolean", "date", "union", "prop"}
NeedKinds == {"need", "object", "string", "number", "array", "boolean", "date", "union"}
PRIMITIVE == {"object", "string", "number", "array", "boolean", "date"}
UNION_ == PRIMITIVE \cup {"mismatch"}
\* names every object inherits from Object.prototype: `name in obj` is true
\* of them, and obj[name](r) returns without throwing
ProtoCallable == {"constructor", "toString", "valueOf"}
\* inherited names whose value cannot be called with a rule: obj[name](r) throws
ProtoThrowing == {"__proto__", "__defineGetter__"}

\* `key in UNION` and `key in PRIMITIVE`: own and inherited property names
InUNION(key) == key \in UNION_ \cup ProtoCallable \cup ProtoThrowing
InPRIMITIVE(key) == key \in PRIMITIVE \cup ProtoCallable \cup ProtoThrowing

PATTERN_ERR_MSG == "Invalid \"pattern\" rule: must provide a valid RegExp object or regular expression string"

\* equalRule comparing kinds only: NaN and unparsable date strings get through
equalRuleKindOnly(rule, parentRule) ==
    LET invalidType == Fail("Invalid \"equal\" rule: \"value\" property must be a valid " \o parentRule.type)
        value == IF "value" \in DOMAIN rule THEN rule.value ELSE Undef
        valType == getInputType(value)
        bad == IF parentRule.type = "date"
               THEN valType # "string" /\ parentRule.type # valType
               ELSE parentRule.type # valType
    IN  IF bad THEN invalidType
        ELSE Made([fn |-> "equal", rule |-> rule, parentType |-> parentRule.type])

equalRule(rule, parentRule) ==
    LET invalidType == Fail("Invalid \"equal\" rule: \"value\" property must be a valid " \o parentRule.type)
        value == IF "value" \in DOMAIN rule THEN rule.value ELSE Undef
        valType == getInputType(value)
        bad == IF parentRule.type = "date"
               THEN IF valType = "string" THEN IsNaN(NewDate(value))
                    ELSE IF parentRule.type # valType THEN TRUE
                    ELSE IsNaN(value)
               ELSE parentRule.type # valType \/ (valType = "number" /\ IsNaN(value))
    IN  IF bad THEN invalidType
        ELSE Made([fn |-> "equal", rule |-> rule, parentType |-> parentRule.type])

\* valueRuleBase returning on a bad value instead of throwing: nothing callable is made
valueRuleBaseNoThrow(rule, parentRule, compare, msg) ==
    LET value == IF "value" \in DOMAIN rule THEN rule.value ELSE Undef
    IN  IF ~(TypeOf(value) = "number") \/ IsNaN(value)
        THEN Made([fn |-> "notAFunction"])
        ELSE Made([fn |-> "value", rule |-> rule, parentType |-> parentRule.type,
                   compare |-> compare, msg |-> msg])

valueRuleBase(rule, parentRule, compare, msg) ==
    LET value == IF "value" \in DOMAIN rule THEN rule.value ELSE Undef
    IN  IF ~(TypeOf(value) = "number") \/ IsNaN(value)
        THEN Fail("Invalid \"" \o rule.type \o "\" rule: \"value\" property must be a valid number")
        ELSE Made([fn |-> "value", rule |-> rule, parentType |-> parentRule.type,
                   compare |-> compare, msg |-> msg])

\* minRule with the comparison of moreRule
minRuleExclusive(rule, parentRule) == valueRuleBase(rule, parentRule, "<=", "must be greater or equal to")
minRule(rule, parentRule) == valueRuleBase(rule, parentRule, "<", "must be greater or equal to")
\* maxRule with the comparison of minRule
maxRuleInverted(rule, parentRule) == valueRuleBase(rule, parentRule, "<", "must be less or equal to")
maxRule(rule, parentRule) == valueRuleBase(rule, parentRule, ">", "must be less or equal to")
lessRule(rule, parentRule) == valueRuleBase(rule, parentRule, ">=", "must be less than")
moreRule(rule, parentRule) == valueRuleBase(rule, parentRule, "<=", "must be greater than")

dateRuleBase(rule, compare, msg) ==
    LET invalidType == Fail("Invalid \"" \o rule.type \o "\" rule: \"value\" property must be a valid date")
        value == IF "value" \in DOMAIN rule THEN rule.value ELSE Undef
        valType == getInputType(value)
    IN  IF valType = "string"
        THEN IF IsNaN(NewDate(value)) THEN invalidType
             ELSE Made([fn |-> "date", rule |-> rule, compare |-> compare, msg |-> msg])
        ELSE IF valType # "date" \/ IsNaN(value) THEN invalidType
             ELSE Made([fn |-> "date", rule |-> rule, compare |-> compare, msg |-> msg])

\* beforeRule with the comparison of endRule
beforeRuleInclusive(rule) == dateRuleBase(rule, ">", "Date must earlier to")
beforeRule(rule) == dateRuleBase(rule, ">=", "Date must earlier to")
afterRule(rule) == dateRuleBase(rule, "<=", "Date must later to")
beginRule(rule) == dateRuleBase(rule, "<", "Date must later or equal to")
endRule(rule) == dateRuleBase(rule, ">", "Date must earlier or equal to")

\* compare(input, targetValue) of two numbers, neither NaN
Compare(op, a, b) ==
    CASE op = "<" -> a < b
      [] op = ">" -> a > b
      [] op = ">=" -> a >= b
      [] op = "<=" -> a <= b

\* rangeRule letting min = max through
rangeRuleAllowEqual(rule) ==
    LET lo == IF "min" \in DOMAIN rule THEN rule.min ELSE Undef
        hi == IF "max" \in DOMAIN rule THEN rule.max ELSE Undef
    IN  IF ~(TypeOf(lo) = "number") \/ IsNaN(lo)
        THEN Fail("Invalid \"range\" rule: \"min\" property must be a valid number")
        ELSE IF ~(TypeOf(hi) = "number") \/ IsNaN(hi)
        THEN Fail("Invalid \"range\" rule: \"max\" property must be a valid number")
        ELSE IF lo.v > hi.v
        THEN Fail("Invalid \"range\" rule: \"min\" property must be less or equal to \"max\" property")
        ELSE Made([fn |-> "range", rule |-> rule])

rangeRule(rule) ==
    LET lo == IF "min" \in DOMAIN rule THEN rule.min ELSE Undef
        hi == IF "max" \in DOMAIN rule THEN rule.max ELSE Undef
    IN  IF ~(TypeOf(lo) = "number") \/ IsNaN(lo)
        THEN Fail("Invalid \"range\" rule: \"min\" property must be a valid number")
        ELSE IF ~(TypeOf(hi) = "number") \/ IsNaN(hi)
        THEN Fail("Invalid \"range\" rule: \"max\" property must be a valid number")
        ELSE IF lo.v >= hi.v
        THEN Fail("Invalid \"range\" rule: \"min\" property must be less or equal to \"max\" property")
        ELSE Made([fn |-> "range", rule |-> rule])

\* checkProp of betweenRule: the Date of rule[prop], or the SchemaError
checkProp(rule, p) ==
    LET x == IF p \in DOMAIN rule THEN rule[p] ELSE Undef
        invalidType == Fail("Invalid \"between\" rule: \"" \o p \o "\" property must be a valid date")
    IN  IF x.t # "date"
        THEN IF TypeOf(x) = "string"
             THEN IF IsNaN(NewDate(x)) THEN invalidType ELSE Made(NewDate(x))
             ELSE invalidType
        ELSE IF IsNaN(x) THEN invalidType ELSE Made(x)

betweenRule(rule) ==
    LET b == checkProp(rule, "begin")
        e == checkProp(rule, "end")
    IN  IF b.err THEN b
        ELSE IF e.err THEN e
        ELSE IF b.v.v >= e.v.v
        THEN Fail("Invalid \"between\" rule: \"begin\" property must be ealier or equal to \"end\" property")
        ELSE Made([fn |-> "between", rule |-> rule, begin |-> b.v, end |-> e.v])

\* the RegExp object a closure captured: its source, and lastIndex starting at 0
patternRule(rule) ==
    LET regex == IF "regex" \in DOMAIN rule THEN rule.regex ELSE Undef
    IN  IF regex.t = "regexp"
        THEN Made([fn |-> "pattern", rule |-> rule, exp |-> NewRegExp(regex.pat, regex.flag),
                   lastIndex |-> regex.lastIndex])
        ELSE IF TypeOf(regex) = "string"
        THEN LET m == MatchLiteral(regex.v)
             IN  IF ~m.ok THEN Fail(PATTERN_ERR_MSG \o ": " \o PATTERN_ERR_MSG)
                 ELSE LET exp == NewRegExp(m.pat, m.flag)
                      IN  IF ~exp.ok
                          THEN Fail(PATTERN_ERR_MSG \o ": Invalid regular expression: /"
                                      \o ChStr(m.pat) \o "/" \o ChStr(m.flag))
                          ELSE Made([fn |-> "pattern", rule |-> rule, exp |-> exp, lastIndex |-> 0])
        ELSE Fail(PATTERN_ERR_MSG)


RECURSIVE createValidator(_, _, _)
RECURSIVE subValidatorsLoop(_, _, _, _, _, _)
RECURSIVE RULES(_, _)
RECURSIVE PRIMITIVE_MAKER(_)
RECURSIVE unionLoop(_, _, _, _)

\* createValidator: the guards on the rule and its type, then RULES[rule.type]
createValidator(rule, availableRules, parentRule) ==
    IF RuleFalsy(rule) \/ RuleType(rule) = ""
    THEN Fail("Invalid rule: cannot be '" \o RuleTypeOf(rule) \o "'")
    ELSE IF rule.type \notin availableRules
    THEN Fail("Unexpected rule: '" \o rule.type \o "'")
    ELSE RULES(rule, parentRule)

RECURSIVE subValidatorsLoopZeroBased(_, _, _, _, _, _)
\* the loop naming the offending child by its index counted from 0
subValidatorsLoopZeroBased(parentRule, rules, i, validators, mismatchMessage, availableRules) ==
    LET wrap(m) == Fail("Invalid \"" \o parentRule.type \o "\" rule (sub rule "
                          \o NumStr(i - 1) \o "):\n    > " \o m)
    IN  IF i > Len(rules)
        THEN [err |-> FALSE, validators |-> validators,
              mismatchMessage |-> IF mismatchMessage = <<"">> THEN <<>> ELSE mismatchMessage]
        ELSE LET r == rules[i]
             IN  IF IsJsValue(r) /\ IsNullish(r)
                 THEN wrap("Cannot read properties of " \o r.t \o " (reading 'type')")
                 ELSE IF RuleType(r) = "mismatch"
                 THEN IF "mismatch" \notin availableRules
                      THEN wrap("Unexpected rule: 'mismatch'")
                      ELSE subValidatorsLoopZeroBased(parentRule, rules, i + 1, validators,
                                             IF "message" \in DOMAIN r THEN <<r.message>> ELSE <<>>,
                                             availableRules)
                 ELSE LET c == createValidator(r, availableRules, parentRule)
                      IN  IF c.err THEN wrap(c.msg)
                          ELSE subValidatorsLoopZeroBased(parentRule, rules, i + 1, Append(validators, c.v),
                                                 mismatchMessage, availableRules)

\* the loop of createSubValidators from index i on, with its catch clause
subValidatorsLoop(parentRule, rules, i, validators, mismatchMessage, availableRules) ==
    LET wrap(m) == Fail("Invalid \"" \o parentRule.type \o "\" rule (sub rule "
                          \o NumStr(i) \o "):\n    > " \o m)
    IN  IF i > Len(rules)
        THEN [err |-> FALSE, validators |-> validators,
              mismatchMessage |-> IF mismatchMessage = <<"">> THEN <<>> ELSE mismatchMessage]
        ELSE LET r == rules[i]
             IN  IF IsJsValue(r) /\ IsNullish(r)
                 THEN wrap("Cannot read properties of " \o r.t \o " (reading 'type')")
                 ELSE IF RuleType(r) = "mismatch"
                 THEN IF "mismatch" \notin availableRules
                      THEN wrap("Unexpected rule: 'mismatch'")
                      ELSE subValidatorsLoop(parentRule, rules, i + 1, validators,
                                             IF "message" \in DOMAIN r THEN <<r.message>> ELSE <<>>,
                                             availableRules)
                 ELSE LET c == createValidator(r, availableRules, parentRule)
                      IN  IF c.err THEN wrap(c.msg)
                          ELSE subValidatorsLoop(parentRule, rules, i + 1, Append(validators, c.v),
                                                 mismatchMessage, availableRules)

\* rule.rules || []
SubRules(rule) == IF "rules" \in DOMAIN rule THEN rule.rules ELSE <<>>

createSubValidators(parentRule, subRules, availableRules) ==
    subValidatorsLoop(parentRule, subRules, 1, <<>>, <<>>, availableRules)

\* the rule.rule guard shared by propRule and itemRule
HasSubRule(rule) ==
    /\ "rule" \in DOMAIN rule
    /\ ~RuleFalsy(rule.rule)
    /\ RuleTypeOf(rule.rule) = "object"
    /\ "type" \in DOMAIN rule.rule

propRule(rule) ==
    IF ~HasSubRule(rule)
    THEN Fail("Invalid \"prop\" rule: must provide a sub rule")
    ELSE LET name == IF "name" \in DOMAIN rule THEN rule.name ELSE Undef
         IN  IF ~Truthy(name) /\ name # Num(0)
             THEN Fail("Invalid \"prop\" rule: \"name\" must be a valid key or index")
             ELSE LET c == createValidator(rule.rule, NeedKinds, Undef)
                  IN  IF c.err
                      THEN Fail("Invalid \"prop\" rule of \"" \o ValStr(name) \o "\":\n    > " \o c.msg)
                      ELSE Made([fn |-> "prop", rule |-> rule, validator |-> c.v])

itemRule(rule) ==
    IF ~HasSubRule(rule)
    THEN Fail("Invalid \"item\" rule: must provide a sub rule")
    ELSE LET c == createValidator(rule.rule, NeedKinds, Undef)
         IN  IF c.err THEN Fail("Invalid \"item\" rule:\n    > " \o c.msg)
             ELSE Made([fn |-> "item", rule |-> rule, validator |-> c.v])

\* needRule compiling its sub rule against the list that holds need itself
needRuleNested(rule) ==
    IF "rule" \in DOMAIN rule /\ ~RuleFalsy(rule.rule)
    THEN LET c == createValidator(rule.rule, NeedKinds, Undef)
         IN  IF c.err THEN Fail("Invalid \"need\" rule:\n    > " \o c.msg)
             ELSE Made([fn |-> "need", rule |-> rule, validator |-> <<c.v>>])
    ELSE Made([fn |-> "need", rule |-> rule, validator |-> <<>>])

\* validator is <<>> for `null`, else the one compiled sub validator
needRule(rule) ==
    IF "rule" \in DOMAIN rule /\ ~RuleFalsy(rule.rule)
    THEN LET c == createValidator(rule.rule, NeedKinds \ {"need"}, Undef)
         IN  IF c.err THEN Fail("Invalid \"need\" rule:\n    > " \o c.msg)
             ELSE Made([fn |-> "need", rule |-> rule, validator |-> <<c.v>>])
    ELSE Made([fn |-> "need", rule |-> rule, validator |-> <<>>])

\* the kinds anyRule allows under a container of the given type
AnyKinds(parentType) ==
    CASE parentType = "string" -> {"equal", "min", "max", "pattern"}
      [] parentType = "number" -> {"equal", "min", "max", "less", "more", "range"}
      [] parentType = "boolean" -> {"equal"}
      [] parentType = "date" -> {"equal", "begin", "end", "before", "after", "between"}
      [] OTHER -> {}

AnyMinValidators == 2

anyRule(rule, parentRule) ==
    LET c == IF parentRule.type \in {"string", "number", "boolean", "date"}
             THEN createSubValidators(parentRule, SubRules(rule), AnyKinds(parentRule.type))
             ELSE [err |-> FALSE, validators |-> <<>>, mismatchMessage |-> <<>>]
    IN  IF c.err THEN c
        ELSE IF Len(c.validators) < AnyMinValidators
        THEN Fail("Invalid \"any\" rule: at least provide two sub rules")
        ELSE Made([fn |-> "any", validators |-> c.validators])

createPrimitiveRule(rule, availableRules) ==
    LET c == createSubValidators(rule, SubRules(rule), availableRules)
    IN  IF c.err THEN c
        ELSE Made([fn |-> "primitive", rule |-> rule, validators |-> c.validators,
                   mismatchMessage |-> c.mismatchMessage])

objectRule(rule) == createPrimitiveRule(rule, {"prop", "mismatch"})
stringRule(rule) == createPrimitiveRule(rule, {"equal", "min", "max", "pattern", "any", "mismatch"})
numberRule(rule) ==
    createPrimitiveRule(rule, {"equal", "min", "max", "less", "more", "range", "any", "mismatch"})
arrayRule(rule) == createPrimitiveRule(rule, {"min", "max", "prop", "item", "mismatch"})
booleanRule(rule) == createPrimitiveRule(rule, {"equal", "mismatch"})
dateRule(rule) ==
    createPrimitiveRule(rule, {"equal", "begin", "end", "before", "after", "between", "any", "mismatch"})

\* PRIMITIVE[r.type](r) for an own key of PRIMITIVE
PRIMITIVE_MAKER(rule) ==
    CASE rule.type = "object" -> objectRule(rule)
      [] rule.type = "string" -> stringRule(rule)
      [] rule.type = "number" -> numberRule(rule)
      [] rule.type = "array" -> arrayRule(rule)
      [] rule.type = "boolean" -> booleanRule(rule)
      [] rule.type = "date" -> dateRule(rule)

\* the value Object.prototype[name](r) leaves in typeValidator: not a function
NotAFunction == [fn |-> "notAFunction"]

\* position of key in the sequence keys, 0 if absent
IndexOf(keys, key) ==
    IF \E i \in 1..Len(keys) : keys[i] = key
    THEN CHOOSE i \in 1..Len(keys) : keys[i] = key
    ELSE 0

\* rules.filter(r => r.type in PRIMITIVE).forEach(r => typeValidator[r.type] = PRIMITIVE[r.type](r)):
\* keys keeps the order in which the types were first assigned
unionLoop(rules, i, keys, vals) ==
    IF i > Len(rules) THEN [err |-> FALSE, keys |-> keys, vals |-> vals]
    ELSE LET r == rules[i]
         IN  IF ~InPRIMITIVE(r.type) THEN unionLoop(rules, i + 1, keys, vals)
             ELSE IF r.type \in ProtoThrowing
             THEN Fail("PRIMITIVE[r.type] is not a function")
             ELSE LET c == IF r.type \in ProtoCallable THEN Made(NotAFunction)
                           ELSE PRIMITIVE_MAKER(r)
                      k == IndexOf(keys, r.type)
                  IN  IF c.err THEN c
                      ELSE IF k = 0
                      THEN unionLoop(rules, i + 1, Append(keys, r.type), Append(vals, c.v))
                      ELSE unionLoop(rules, i + 1, keys, [vals EXCEPT ![k] = c.v])

UnionMinTypes == 2

unionRule(rule) ==
    LET rules == SubRules(rule)
        wrap(m) == Fail("Invalid \"union\" rule:\n    > " \o m)
        bad == {i \in 1..Len(rules) :
                   \/ RuleFalsy(rules[i]) \/ RuleType(rules[i]) = ""
                   \/ ~InUNION(rules[i].type)}
    IN  IF bad # {}
        THEN LET i == CHOOSE b \in bad : \A o \in bad : b <= o
             IN  IF RuleFalsy(rules[i]) \/ RuleType(rules[i]) = ""
                 THEN wrap("Invalid rule: cannot be '" \o RuleTypeOf(rules[i]) \o "'")
                 ELSE wrap("Unexpected rule: " \o rules[i].type)
        ELSE LET c == unionLoop(rules, 1, <<>>, <<>>)
                 ms == {i \in 1..Len(rules) : rules[i].type = "mismatch"}
                 mismatchRule == rules[CHOOSE i \in ms : \A o \in ms : i <= o]
             IN  IF c.err THEN wrap(c.msg)
                 ELSE IF Len(c.keys) < UnionMinTypes
                 THEN Fail("Invalid \"union\" rule, at least provide two different types")
                 ELSE Made([fn |-> "union", supportTypes |-> c.keys, typeValidator |-> c.vals,
                            mismatchMessage |-> IF ms # {} /\ HasMessage(mismatchRule)
                                                THEN <<mismatchRule.message>> ELSE <<>>])

\* RULES[rule.type](rule, parentRule)
RULES(rule, parentRule) ==
    CASE rule.type = "equal" -> equalRule(rule, parentRule)
      [] rule.type = "min" -> minRule(rule, parentRule)
      [] rule.type = "max" -> maxRule(rule, parentRule)
      [] rule.type = "less" -> lessRule(rule, parentRule)
      [] rule.type = "more" -> moreRule(rule, parentRule)
      [] rule.type = "before" -> beforeRule(rule)
      [] rule.type = "after" -> afterRule(rule)
      [] rule.type = "begin" -> beginRule(rule)
      [] rule.type = "end" -> endRule(rule)
      [] rule.type = "range" -> rangeRule(rule)
      [] rule.type = "between" -> betweenRule(rule)
      [] rule.type = "pattern" -> patternRule(rule)
      [] rule.type = "any" -> anyRule(rule, parentRule)
      [] rule.type = "need" -> needRule(rule)
      [] rule.type = "prop" -> propRule(rule)
      [] rule.type = "item" -> itemRule(rule)
      [] rule.type = "union" -> unionRule(rule)
      [] OTHER -> PRIMITIVE_MAKER(rule)


(***************************************************************************)
(* Validation.  Calling a closure v on an input gives                      *)
(*   ok    - it returned normally                                          *)
(*   kind  - the class of the error it threw ("" when ok)                  *)
(*   msg   - that error's message                                          *)
(*   v     - the closure afterwards (a RegExp it captured keeps lastIndex) *)
(*   trace - the paths of the closures that were called, in call order; a  *)
(*           path is the sequence of child positions from the root.        *)
(***************************************************************************)
Pass(v, trace) == [ok |-> TRUE, kind |-> "", msg |-> "", v |-> v, trace |-> trace]
Throw(kind, msg, v, trace) == [ok |-> FALSE, kind |-> kind, msg |-> msg, v |-> v, trace |-> trace]

\* invalidValueMessage: the message of the ValidationError it throws
invalidValueMessage(rule, state) ==
    IF HasMessage(rule) THEN rule.message ELSE state \o " " \o ValStr(rule.value)

\* the number a relational operator makes of its operand
ToNumber(x) ==
    CASE x.t = "number" -> x
      [] x.t = "null" -> Num(0)
      [] x.t = "boolean" -> Num(IF x.v THEN 1 ELSE 0)
      [] x.t = "string" -> IF \A i \in 1..Len(x.v) : IsDigit(x.v[i]) THEN Num(DecVal(x.v)) ELSE NaN
      [] x.t = "date" -> IF x.nan THEN NaN ELSE Num(x.v)
      [] OTHER -> NaN

\* compare(a, b) on JS operands: false as soon as one of them is NaN
JsCompare(op, a, b) ==
    LET na == ToNumber(a)
        nb == ToNumber(b)
    IN  ~na.nan /\ ~nb.nan /\ Compare(op, na.v, nb.v)

\* x.length of a value that is neither null nor undefined
LengthOf(x) == IF x.t \in {"string", "array"} THEN Num(Len(x.v)) ELSE Undef

\* the value a property read finds on Object.prototype when the object has
\* no own property of that name
Inherited(key) ==
    IF key \in ProtoCallable \cup {"__defineGetter__"} THEN Func
    ELSE IF key = "__proto__" THEN Obj(<<>>, <<>>)
    ELSE Undef

\* the property read that ignores the name and yields the first property
GetPropFirst(x, name) ==
    CASE x.t = "object" -> IF x.v # <<>> THEN x.v[1] ELSE Undef
      [] x.t = "array" -> IF x.v # <<>> THEN x.v[1] ELSE Undef
      [] OTHER -> Undef

\* input[name]
GetProp(x, name) ==
    LET key == ValStr(name)
    IN  CASE x.t = "object" ->
                 IF IndexOf(x.k, key) # 0 THEN x.v[IndexOf(x.k, key)] ELSE Inherited(key)
          [] x.t = "array" ->
                 IF key = "length" THEN Num(Len(x.v))
                 ELSE IF \E i \in 1..Len(x.v) : NumStr(i - 1) = key
                 THEN x.v[CHOOSE i \in 1..Len(x.v) : NumStr(i - 1) = key]
                 ELSE Inherited(key)
          [] OTHER -> Inherited(key)

equalValidator(v, input, path) ==
    LET rule == v.rule
        differs == IF v.parentType = "date"
                   THEN LET a == input
                            b == NewDate(rule.value)
                        IN  a.nan \/ b.nan \/ a.v # b.v
                   ELSE IF v.parentType = "number"
                   THEN input.nan \/ rule.value.nan \/ input.v # rule.value.v
                   ELSE input # rule.value
    IN  IF v.parentType = getInputType(input) /\ differs
        THEN Throw("ValidationError", invalidValueMessage(rule, "must be"), v, <<path>>)
        ELSE Pass(v, <<path>>)

valueValidator(v, input, path) ==
    LET rule == v.rule
    IN  CASE v.parentType = "number" ->
                 IF JsCompare(v.compare, input, rule.value) \/ IsNaN(input)
                 THEN Throw("ValidationError", invalidValueMessage(rule, "value " \o v.msg), v, <<path>>)
                 ELSE Pass(v, <<path>>)
          [] v.parentType \in {"string", "array"} ->
                 IF IsNullish(input)
                 THEN Throw("TypeError", "Cannot read properties of " \o input.t \o " (reading 'length')",
                            v, <<path>>)
                 ELSE IF JsCompare(v.compare, LengthOf(input), rule.value)
                 THEN Throw("ValidationError",
                            invalidValueMessage(rule, v.parentType \o " length " \o v.msg), v, <<path>>)
                 ELSE Pass(v, <<path>>)
          [] OTHER -> Pass(v, <<path>>)

dateValidator(v, input, path) ==
    IF getInputType(input) = "date" /\ JsCompare(v.compare, input, NewDate(v.rule.value))
    THEN Throw("ValidationError", invalidValueMessage(v.rule, v.msg), v, <<path>>)
    ELSE Pass(v, <<path>>)

\* the range closure with both bounds exclusive
rangeValidatorExclusive(v, input, path) ==
    LET rule == v.rule
    IN  IF getInputType(input) = "number"
           /\ (JsCompare("<=", input, rule.min) \/ JsCompare(">=", input, rule.max) \/ IsNaN(input))
        THEN Throw("ValidationError",
                   IF HasMessage(rule) THEN rule.message
                   ELSE "Value must between " \o ValStr(rule.min) \o " to " \o ValStr(rule.max),
                   v, <<path>>)
        ELSE Pass(v, <<path>>)

rangeValidator(v, input, path) ==
    LET rule == v.rule
    IN  IF getInputType(input) = "number"
           /\ (JsCompare("<", input, rule.min) \/ JsCompare(">", input, rule.max) \/ IsNaN(input))
        THEN Throw("ValidationError",
                   IF HasMessage(rule) THEN rule.message
                   ELSE "Value must between " \o ValStr(rule.min) \o " to " \o ValStr(rule.max),
                   v, <<path>>)
        ELSE Pass(v, <<path>>)

betweenValidator(v, input, path) ==
    LET rule == v.rule
    IN  IF getInputType(input) = "date"
           /\ (JsCompare("<", input, v.begin) \/ JsCompare(">", input, v.end))
        THEN Throw("ValidationError",
                   IF HasMessage(rule) THEN rule.message
                   ELSE "Date must between " \o ValStr(rule.begin) \o " and " \o ValStr(rule.end),
                   v, <<path>>)
        ELSE Pass(v, <<path>>)

patternValidator(v, input, path) ==
    IF TypeOf(input) = "string"
    THEN LET r == RegExpTest(v.exp, input.v, v.lastIndex)
             w == [v EXCEPT !.lastIndex = r.lastIndex]
         IN  IF ~r.found
             THEN Throw("ValidationError",
                        IF HasMessage(v.rule) THEN v.rule.message
                        ELSE "must match expression: " \o v.exp.src,
                        w, <<path>>)
             ELSE Pass(w, <<path>>)
    ELSE Pass(v, <<path>>)


RECURSIVE Run(_, _, _)
RECURSIVE validate(_, _, _, _)
RECURSIVE anyLoop(_, _, _, _, _)
RECURSIVE itemLoop(_, _, _, _)
RECURSIVE unionTry(_, _, _, _, _, _)

RECURSIVE validateLastWins(_, _, _, _)
\* validate that runs every validator and throws the error of the last one that failed
validateLastWins(input, validators, i, path) ==
    IF i > Len(validators) THEN Pass(validators, <<>>)
    ELSE LET r == Run(validators[i], input, Append(path, i))
             vs == [validators EXCEPT ![i] = r.v]
             rest == validateLastWins(input, vs, i + 1, path)
         IN  IF rest.ok /\ ~r.ok THEN Throw(r.kind, r.msg, rest.v, r.trace \o rest.trace)
             ELSE [rest EXCEPT !.trace = r.trace \o rest.trace]

\* validate(input, validators) from position i on: the result carries the
\* sequence of closures in v
validate(input, validators, i, path) ==
    IF i > Len(validators) THEN Pass(validators, <<>>)
    ELSE LET r == Run(validators[i], input, Append(path, i))
             vs == [validators EXCEPT ![i] = r.v]
         IN  IF ~r.ok THEN Throw(r.kind, r.msg, vs, r.trace)
             ELSE LET rest == validate(input, vs, i + 1, path)
                  IN  [rest EXCEPT !.trace = r.trace \o rest.trace]

\* the numbering starting at 0
NumberedFromZero(errors, prefix) ==
    [i \in 1..Len(errors) |-> prefix \o NumStr(i - 1) \o ". " \o errors[i]]

\* errors.map((e, i) => `${i + 1}. ${e}`) with the given prefix before the number
Numbered(errors, prefix) == [i \in 1..Len(errors) |-> prefix \o NumStr(i) \o ". " \o errors[i]]

\* the for loop of the any closure from position i on, then its final throw
anyLoop(input, validators, i, path, errors) ==
    IF i > Len(validators)
    THEN Throw("ValidationError",
               IF Len(errors) = 1 THEN errors[1]
               ELSE "not eligible: (" \o JoinStr(Numbered(errors, ""), ", ") \o ")",
               validators, <<>>)
    ELSE LET r == Run(validators[i], input, Append(path, i))
             vs == [validators EXCEPT ![i] = r.v]
         IN  IF r.ok THEN Pass(vs, r.trace)
             ELSE LET rest == anyLoop(input, vs, i + 1, path, Append(errors, r.msg))
                  IN  [rest EXCEPT !.trace = r.trace \o rest.trace]

anyValidator(v, input, path) ==
    LET r == anyLoop(input, v.validators, 1, path, <<>>)
    IN  [r EXCEPT !.v = [v EXCEPT !.validators = r.v], !.trace = <<path>> \o r.trace]

\* typeof input === 'undefined' || input === null
InputAbsentNullOnly(input) == input.t = "null"
InputAbsent(input) == TypeOf(input) = "undefined" \/ input.t = "null"

needValidator(v, input, path) ==
    IF InputAbsent(input)
    THEN Throw("ValidationError",
               IF HasMessage(v.rule) THEN v.rule.message ELSE "value is need", v, <<path>>)
    ELSE IF v.validator # <<>>
    THEN LET r == Run(v.validator[1], input, Append(path, 1))
         IN  [r EXCEPT !.v = [v EXCEPT !.validator = <<r.v>>], !.trace = <<path>> \o r.trace]
    ELSE Pass(v, <<path>>)

propValidator(v, input, path) ==
    IF TypeOf(input) = "object" /\ input.t # "null"
    THEN LET r == Run(v.validator, GetProp(input, v.rule.name), Append(path, 1))
             w == [v EXCEPT !.validator = r.v]
         IN  IF r.ok THEN Pass(w, <<path>> \o r.trace)
             ELSE Throw("ValidationError",
                        "Invalid property \"" \o ValStr(v.rule.name) \o "\": " \o r.msg,
                        w, <<path>> \o r.trace)
    ELSE Pass(v, <<path>>)

RECURSIVE itemLoopLast(_, _, _, _)
\* the loop that examines every element and reports the last one that failed
itemLoopLast(input, v, i, path) ==
    IF i >= Len(input.v) THEN Pass(v, <<>>)
    ELSE LET r == Run(v, input.v[i + 1], Append(path, 1))
             rest == itemLoopLast(input, r.v, i + 1, path)
         IN  IF rest.ok /\ ~r.ok
             THEN Throw("ValidationError", "Invalid item [" \o NumStr(i) \o "]: " \o r.msg,
                        rest.v, r.trace \o rest.trace)
             ELSE [rest EXCEPT !.trace = r.trace \o rest.trace]

\* the for loop of the item closure from element i (counted from 0) on;
\* v is the sub validator
itemLoop(input, v, i, path) ==
    IF i >= Len(input.v) THEN Pass(v, <<>>)
    ELSE LET r == Run(v, input.v[i + 1], Append(path, 1))
         IN  IF ~r.ok
             THEN Throw("ValidationError", "Invalid item [" \o NumStr(i) \o "]: " \o r.msg, r.v, r.trace)
             ELSE LET rest == itemLoop(input, r.v, i + 1, path)
                  IN  [rest EXCEPT !.trace = r.trace \o rest.trace]

itemValidator(v, input, path) ==
    IF input.t = "array"
    THEN LET r == itemLoop(input, v.validator, 0, path)
         IN  [r EXCEPT !.v = [v EXCEPT !.validator = r.v], !.trace = <<path>> \o r.trace]
    ELSE Pass(v, <<path>>)

\* throwMismatch of createPrimitiveRule
throwMismatch(v, inputType, path) ==
    Throw("ValidationError",
          IF v.mismatchMessage # <<>> THEN v.mismatchMessage[1]
          ELSE "Unexpected type: require '" \o v.rule.type \o "' but found '" \o inputType \o "'",
          v, <<path>>)

\* inputType !== 'undefined' && input !== null
InputPresentUndefinedOnly(inputType, input) == inputType # "undefined"
InputPresent(inputType, input) == inputType # "undefined" /\ input.t # "null"

\* the container closure without the coercion of a string by a date container
primitiveValidatorNoCoercion(v, input, path) ==
    LET inputType == getInputType(input)
        run == validate(input, v.validators, 1, path)
    IN  IF InputPresent(inputType, input)
        THEN IF inputType # v.rule.type THEN throwMismatch(v, inputType, path)
             ELSE IF inputType = "date" /\ IsNaN(input) THEN throwMismatch(v, "invalid date", path)
             ELSE IF inputType = "number" /\ IsNaN(input)
             THEN throwMismatch(v, "invalid number", path)
             ELSE [run EXCEPT !.v = [v EXCEPT !.validators = run.v], !.trace = <<path>> \o run.trace]
        ELSE Pass(v, <<path>>)

primitiveValidator(v, input, path) ==
    LET inputType == getInputType(input)
        coerce == v.rule.type = "date" /\ inputType = "string"
        input2 == IF coerce THEN NewDate(input) ELSE input
        run == validate(input2, v.validators, 1, path)
    IN  IF InputPresent(inputType, input)
        THEN IF coerce /\ IsNaN(input2) THEN throwMismatch(v, inputType, path)
             ELSE IF ~coerce /\ inputType # v.rule.type THEN throwMismatch(v, inputType, path)
             ELSE IF ~coerce /\ inputType = "date" /\ IsNaN(input) THEN throwMismatch(v, "invalid date", path)
             ELSE IF ~coerce /\ inputType = "number" /\ IsNaN(input)
             THEN throwMismatch(v, "invalid number", path)
             ELSE [run EXCEPT !.v = [v EXCEPT !.validators = run.v], !.trace = <<path>> \o run.trace]
        ELSE Pass(v, <<path>>)

\* the selection without the test on the input's type
UnionCandidatesAll(v, input) == [i \in 1..Len(v.supportTypes) |-> i]

\* the selection without the date widening
UnionCandidatesExact(v, input) ==
    SelectSeq([i \in 1..Len(v.supportTypes) |-> i],
              LAMBDA i : v.supportTypes[i] = getInputType(input))

\* the positions in supportTypes of the validators the union closure selects
UnionCandidates(v, input) ==
    LET inputType == getInputType(input)
    IN  SelectSeq([i \in 1..Len(v.supportTypes) |-> i],
                  LAMBDA i : \/ v.supportTypes[i] = inputType
                             \/ /\ v.supportTypes[i] = "date"
                                /\ inputType = "string"
                                /\ ~IsNaN(NewDate(input)))

RECURSIVE unionTryAlwaysCombined(_, _, _, _, _, _)
\* the loop that combines the messages even when one candidate was tried
unionTryAlwaysCombined(input, vals, cands, j, path, errors) ==
    IF j > Len(cands)
    THEN Throw("ValidationError",
               "No rule matched: [" \o JoinStr(Numbered(errors, "R"), "; ") \o "]",
               vals, <<>>)
    ELSE LET r == Run(vals[cands[j]], input, Append(path, cands[j]))
             vs == [vals EXCEPT ![cands[j]] = r.v]
         IN  IF r.ok THEN Pass(vs, r.trace)
             ELSE LET rest == unionTryAlwaysCombined(input, vs, cands, j + 1, path,
                                                     Append(errors, r.msg))
                  IN  [rest EXCEPT !.trace = r.trace \o rest.trace]

\* the second for loop of the union closure over the selected positions
unionTry(input, vals, cands, j, path, errors) ==
    IF j > Len(cands)
    THEN Throw("ValidationError",
               IF Len(errors) = 1 THEN errors[1]
               ELSE "No rule matched: [" \o JoinStr(Numbered(errors, "R"), "; ") \o "]",
               vals, <<>>)
    ELSE LET r == Run(vals[cands[j]], input, Append(path, cands[j]))
             vs == [vals EXCEPT ![cands[j]] = r.v]
         IN  IF r.ok THEN Pass(vs, r.trace)
             ELSE LET rest == unionTry(input, vs, cands, j + 1, path, Append(errors, r.msg))
                  IN  [rest EXCEPT !.trace = r.trace \o rest.trace]

\* supportTypes.toString().replace(',', ', '): only the first comma is replaced
SupportTypesText(types) ==
    IF Len(types) <= 1 THEN JoinStr(types, ",")
    ELSE types[1] \o ", " \o JoinStr(Tail(types), ",")

\* the union closure without its guard on undefined and null
unionValidatorNoGuard(v, input, path) ==
    LET inputType == getInputType(input)
        cands == UnionCandidates(v, input)
        r == unionTry(input, v.typeValidator, cands, 1, path, <<>>)
    IN  IF Len(cands) = 0
        THEN Throw("ValidationError",
                   IF v.mismatchMessage # <<>> THEN v.mismatchMessage[1]
                   ELSE "Unexpected type: can be '" \o SupportTypesText(v.supportTypes)
                          \o "' but found '" \o inputType \o "'",
                   v, <<path>>)
        ELSE [r EXCEPT !.v = [v EXCEPT !.typeValidator = r.v], !.trace = <<path>> \o r.trace]

unionValidator(v, input, path) ==
    LET inputType == getInputType(input)
        cands == UnionCandidates(v, input)
        r == unionTry(input, v.typeValidator, cands, 1, path, <<>>)
    IN  IF InputPresent(inputType, input)
        THEN IF Len(cands) = 0
             THEN Throw("ValidationError",
                        IF v.mismatchMessage # <<>> THEN v.mismatchMessage[1]
                        ELSE "Unexpected type: can be '" \o SupportTypesText(v.supportTypes)
                               \o "' but found '" \o inputType \o "'",
                        v, <<path>>)
             ELSE [r EXCEPT !.v = [v EXCEPT !.typeValidator = r.v], !.trace = <<path>> \o r.trace]
        ELSE Pass(v, <<path>>)

\* calling the closure v
Run(v, input, path) ==
    CASE v.fn = "equal" -> equalValidator(v, input, path)
      [] v.fn = "value" -> valueValidator(v, input, path)
      [] v.fn = "date" -> dateValidator(v, input, path)
      [] v.fn = "range" -> rangeValidator(v, input, path)
      [] v.fn = "between" -> betweenValidator(v, input, path)
      [] v.fn = "pattern" -> patternValidator(v, input, path)
      [] v.fn = "any" -> anyValidator(v, input, path)
      [] v.fn = "need" -> needValidator(v, input, path)
      [] v.fn = "prop" -> propValidator(v, input, path)
      [] v.fn = "item" -> itemValidator(v, input, path)
      [] v.fn = "primitive" -> primitiveValidator(v, input, path)
      [] v.fn = "union" -> unionValidator(v, input, path)
      [] OTHER -> Throw("TypeError", "validator is not a function", v, <<path>>)


(***************************************************************************)
(* The rule trees and the inputs the model draws from.                     *)
(***************************************************************************)
MaxChildren == 2
MaxAny == 3

RECURSIVE SeqsUpTo(_, _)
\* the sequences over S of length at most n
SeqsUpTo(S, n) ==
    IF n = 0 THEN {<<>>}
    ELSE LET shorter == SeqsUpTo(S, n - 1)
         IN  shorter \cup {Append(q, e) : q \in {r \in shorter : Len(r) = n - 1}, e \in S}

sEmpty == Str(<<>>)
sA == Str(<<"a">>)
sAA == Str(<<"a", "a">>)
sBA == Str(<<"b", "a">>)
sABCD == Str(<<"a", "b", "c", "d">>)
s5 == Str(<<"5">>)
s123 == Str(<<"1", "2", "3">>)
s12a == Str(<<"1", "2", "a">>)
d2018 == Str(<<"2", "0", "1", "8", "-", "0", "1", "-", "0", "1">>)
d2019 == Str(<<"2", "0", "1", "9", "-", "0", "1", "-", "0", "1">>)
d2019m == Str(<<"2", "0", "1", "9", "-", "0", "6", "-", "1", "5">>)
d2020 == Str(<<"2", "0", "2", "0", "-", "0", "1", "-", "0", "1">>)
d2021 == Str(<<"2", "0", "2", "1", "-", "0", "1", "-", "0", "1">>)

reDigits == Str(<<"/", "^", "\\", "d", "+", "$", "/">>)
reAg == Str(<<"/", "a", "/", "g">>)
reAy == Str(<<"/", "a", "/", "y">>)
reA == Str(<<"/", "a", "/">>)
reBad == Str(<<"/", "a", "+", "+", "/">>)
reNoSlash == Str(<<"a">>)

\* the children drawn for each container type
StringLeaves == {min(Num(2), NoMsg), max(Num(1), <<"too long">>), equal(sA, NoMsg),
                 pattern(reDigits, NoMsg), pattern(reAg, NoMsg), mismatch(<<"need a string">>)}
NumberLeaves == {min(Num(1), NoMsg), max(Num(3), NoMsg), range(Num(1), Num(3), NoMsg),
                 equal(Num(2), NoMsg), less(Num(2), <<"too big">>), mismatch(<<"need a number">>)}
DateLeaves == {before(d2019, NoMsg), after(d2020, NoMsg), between(d2019, d2020, NoMsg),
               end(d2020, <<"too late">>), mismatch(NoMsg)}
BooleanLeaves == {equal(Bool(TRUE), NoMsg), equal(Bool(FALSE), <<"must be false">>), mismatch(NoMsg)}
ArrayLeaves == {item(need(number(<<>>), NoMsg)), min(Num(1), NoMsg), max(Num(3), NoMsg),
                mismatch(<<"need an array">>)}
ObjectLeaves == {prop(sA, need(string(<<min(Num(1), NoMsg)>>), NoMsg)),
                 prop(Str(<<"b">>), number(<<max(Num(3), NoMsg)>>)),
                 mismatch(NoMsg)}

StringRules == {string(cs) : cs \in SeqsUpTo(StringLeaves, MaxChildren)}
NumberRules == {number(cs) : cs \in SeqsUpTo(NumberLeaves, MaxChildren)}
DateRules == {date(cs) : cs \in SeqsUpTo(DateLeaves, MaxChildren)}
BooleanRules == {boolean(cs) : cs \in SeqsUpTo(BooleanLeaves, MaxChildren)}
\* array(item(required(number())), min(1), max(3))
scenario2 == array(<<item(need(number(<<>>), NoMsg)), min(Num(1), NoMsg), max(Num(3), NoMsg)>>)

ArrayRules == {array(cs) : cs \in SeqsUpTo(ArrayLeaves, MaxChildren)}
                \cup {scenario2, array(<<item(string(<<max(Num(1), NoMsg)>>))>>)}
\* object(prop('name', required(string(min(1)))))
scenario1 == object(<<prop(Str(<<"n", "a", "m", "e">>), need(string(<<min(Num(1), NoMsg)>>), NoMsg))>>)

ObjectRules == {object(cs) : cs \in SeqsUpTo(ObjectLeaves, MaxChildren)}
                 \cup {scenario1,
                       object(<<prop(Str(<<"t", "o", "S", "t", "r", "i", "n", "g">>), string(<<>>))>>),
                       object(<<prop(Str(<<"i", "d">>), need(number(<<>>), NoMsg))>>)}

\* the types named anywhere in a rule tree
RECURSIVE TypesIn(_)
TypesIn(r) ==
    IF IsJsValue(r) THEN {}
    ELSE {RuleType(r)}
           \cup (IF "rule" \in DOMAIN r THEN TypesIn(r.rule) ELSE {})
           \cup (IF "rules" \in DOMAIN r
                 THEN UNION {TypesIn(r.rules[i]) : i \in 1..Len(r.rules)} ELSE {})

Generic == {Undef, Null, Func}
NumberInputs == {NaN, Infinity} \cup {Num(n) : n \in 0..MaxNum}
\* strings without a digit: none of them parses to a date
LetterStrings == {sEmpty, sA, sAA, sBA, sABCD}
DigitStrings == {s5, s123, s12a}
DateStrings == {d2018, d2019m, d2021}
DateInputs == {InvalidDate, NewDate(d2018), NewDate(d2019m), NewDate(d2020), NewDate(d2021)}
ArrayInputs == {Arr(q) : q \in SeqsUpTo({Num(1), sA}, MaxArrLen)}
ObjectInputs == {Obj(<<>>, <<>>), Obj(<<"a">>, <<sEmpty>>), Obj(<<"a">>, <<sA>>),
                 Obj(<<"a", "b">>, <<sA, Num(4)>>), Obj(<<"b">>, <<Num(1)>>),
                 Obj(<<"name">>, <<sEmpty>>), Obj(<<"id", "name">>, <<Num(1), sA>>)}

\* the numbers at and next to the bounds of the range rules of a number
\* container, and the dates at the bounds of the between rules of a date container
BoundInputs(r) ==
    IF RuleType(r) = "number"
    THEN UNION {{Num(c.min.v - 1), Num(c.min.v), Num(c.max.v), Num(c.max.v + 1)} :
                  c \in {r.rules[i] : i \in {j \in 1..Len(r.rules) :
                            /\ RuleType(r.rules[j]) = "range"
                            /\ {"min", "max"} \subseteq DOMAIN r.rules[j]
                            /\ r.rules[j].min.t = "number" /\ r.rules[j].max.t = "number"}}}
    ELSE IF RuleType(r) = "date"
    THEN UNION {{NewDate(c.begin), NewDate(c.end)} :
                  c \in {r.rules[i] : i \in {j \in 1..Len(r.rules) :
                            /\ RuleType(r.rules[j]) = "between"
                            /\ {"begin", "end"} \subseteq DOMAIN r.rules[j]}}}
    ELSE {}

\* the inputs tried on a rule: a few of every kind, and all of the kinds it names.
\* A string holding a digit that is not an ISO date has no defined parse, so it
\* is tried only on rules that name no date.
InputsFor(r) ==
    LET ts == TypesIn(r)
    IN  Generic \cup {Num(1), sA, Bool(TRUE), Arr(<<>>), Obj(<<>>, <<>>), NewDate(d2019m)}
          \cup (IF "number" \in ts THEN NumberInputs ELSE {})
          \cup BoundInputs(r)
          \cup (IF "string" \in ts THEN LetterStrings ELSE {})
          \cup (IF "string" \in ts /\ "date" \notin ts THEN DigitStrings ELSE {})
          \cup (IF "date" \in ts THEN DateStrings \cup DateInputs ELSE {})
          \cup (IF "boolean" \in ts THEN {Bool(FALSE)} ELSE {})
          \cup (IF "array" \in ts THEN ArrayInputs ELSE {})
          \cup (IF "object" \in ts THEN ObjectInputs ELSE {})

(***************************************************************************)
(* The program: a Schema is constructed from a rule, then its validate is  *)
(* called any number of times.                                             *)
(*   rule      - the rule tree handed to the constructor                   *)
(*   pc        - "new" before the constructor ran, "ready" once it         *)
(*               returned, "failed" when it threw                          *)
(*   validator - schema.validate, the compiled closure                     *)
(*   thrown    - the message of the SchemaError the constructor threw      *)
(*   input     - the argument of the latest validate call                  *)
(*   outcome   - how that call ended                                       *)
(*   trace     - the closures that call ran                                *)
(*   first     - how the first call of the current run of calls on the     *)
(*               same input ended                                          *)
(***************************************************************************)
VARIABLES rule, pc, validator, thrown, input, outcome, trace, first

vars == <<rule, pc, validator, thrown, input, outcome, trace, first>>

NotCompiled == [fn |-> "none"]
NoCall == [ok |-> TRUE, kind |-> "none", msg |-> ""]
Called == outcome # NoCall

RECURSIVE Aliased(_, _)
\* the rule tree after the closure v made from it has run: a RegExp object
\* held by a pattern rule is the very object its closure tests with, so it
\* carries the closure's lastIndex; nothing else in the tree is written to
Aliased(ru, v) ==
    CASE v.fn = "pattern" ->
           IF ru.regex.t = "regexp" THEN [ru EXCEPT !.regex.lastIndex = v.lastIndex] ELSE ru
      [] v.fn \in {"prop", "item"} -> [ru EXCEPT !.rule = Aliased(ru.rule, v.validator)]
      [] v.fn = "need" ->
           IF v.validator = <<>> THEN ru
           ELSE [ru EXCEPT !.rule = Aliased(ru.rule, v.validator[1])]
      [] v.fn \in {"primitive", "any"} ->
           IF "rules" \notin DOMAIN ru THEN ru
           ELSE [ru EXCEPT !.rules =
                   [i \in 1..Len(ru.rules) |->
                      IF RuleType(ru.rules[i]) = "mismatch" THEN ru.rules[i]
                      ELSE Aliased(ru.rules[i],
                                   v.validators[Cardinality({j \in 1..i :
                                                    RuleType(ru.rules[j]) # "mismatch"})])]]
      [] v.fn = "union" ->
           [ru EXCEPT !.rules =
              [i \in 1..Len(ru.rules) |->
                 IF /\ ru.rules[i].type \in PRIMITIVE
                    /\ \A j \in (i + 1)..Len(ru.rules) : ru.rules[j].type # ru.rules[i].type
                 THEN Aliased(ru.rules[i],
                              v.typeValidator[IndexOf(v.supportTypes, ru.rules[i].type)])
                 ELSE ru.rules[i]]]
      [] OTHER -> ru

InitWith(rules) ==
    /\ rule \in rules
    /\ pc = "new"
    /\ validator = NotCompiled
    /\ thrown = ""
    /\ input = Undef
    /\ outcome = NoCall
    /\ trace = <<>>
    /\ first = NoCall

\* new Schema(rule)
Schema ==
    /\ pc = "new"
    /\ LET c == createValidator(rule, NeedKinds, Undef)
       IN  IF c.err
           THEN /\ pc' = "failed"
                /\ thrown' = c.msg
                /\ validator' = validator
           ELSE /\ pc' = "ready"
                /\ validator' = c.v
                /\ thrown' = thrown
    /\ UNCHANGED <<rule, input, outcome, trace, first>>

\* schema.validate(x)
Validate(x) ==
    /\ pc = "ready"
    /\ LET r == Run(validator, x, <<>>)
           o == [ok |-> r.ok, kind |-> r.kind, msg |-> r.msg]
       IN  /\ validator' = r.v
           /\ input' = x
           /\ outcome' = o
           /\ trace' = r.trace
           /\ first' = IF Called /\ x = input THEN first ELSE o
           /\ rule' = Aliased(rule, r.v)
    /\ UNCHANGED <<pc, thrown>>

Next ==
    \/ Schema
    \/ \E x \in InputsFor(rule) : Validate(x)

PrimitiveRules == StringRules \cup NumberRules \cup DateRules \cup BooleanRules
                    \cup ArrayRules \cup ObjectRules

\* a container holding one any rule, the any rule holding up to MaxAny checks
AnyRules ==
    {string(<<any(cs)>>) : cs \in SeqsUpTo({equal(sAA, NoMsg), min(Num(3), NoMsg),
                                            pattern(reDigits, NoMsg),
                                            max(Num(0), <<"must be empty">>)}, MaxAny)}
      \cup {number(<<any(cs)>>) : cs \in SeqsUpTo({less(Num(1), NoMsg), more(Num(3), NoMsg),
                                                  equal(Num(2), <<"two">>)}, MaxAny)}
      \cup {date(<<any(cs)>>) : cs \in SeqsUpTo({before(d2019, NoMsg), after(d2020, NoMsg)}, MaxAny)}
      \cup {string(<<any(<<mismatch(NoMsg), min(Num(1), NoMsg), max(Num(2), NoMsg)>>)>>),
            string(<<any(<<any(<<min(Num(1), NoMsg), max(Num(2), NoMsg)>>), min(Num(1), NoMsg)>>)>>),
            boolean(<<any(<<equal(Bool(TRUE), NoMsg), equal(Bool(FALSE), NoMsg)>>)>>),
            array(<<any(<<min(Num(1), NoMsg), max(Num(2), NoMsg)>>)>>),
            string(<<[type |-> "any"]>>)}

dateAny == date(<<any(<<before(d2019, NoMsg), after(d2020, NoMsg)>>)>>)

\* the children drawn for a union
UnionBranches == {string(<<>>), string(<<min(Num(2), NoMsg)>>), string(<<max(Num(3), NoMsg)>>),
                  number(<<max(Num(3), NoMsg)>>), boolean(<<>>), dateAny,
                  mismatch(<<"no kind fits">>), [type |-> "constructor"],
                  need(string(<<>>), NoMsg)}

UnionRules ==
    {union(cs) : cs \in SeqsUpTo(UnionBranches, MaxChildren)}
      \cup {union(<<string(<<>>), number(<<>>)>>),
            union(<<string(<<>>), number(<<>>), boolean(<<>>)>>),
            union(<<string(<<>>), mismatch(NoMsg), number(<<>>)>>),
            union(<<string(<<min(Num(2), NoMsg)>>), number(<<>>), string(<<>>)>>),
            union(<<dateAny, number(<<>>), string(<<max(Num(3), NoMsg)>>)>>),
            union(<<object(<<>>), array(<<>>)>>),
            union(<<string(<<>>), Null>>),
            union(<<string(<<>>), [type |-> "__proto__"]>>),
            union(<<string(<<>>), union(<<string(<<>>), number(<<>>)>>)>>),
            union(<<string(<<>>), number(<<min(NaN, NoMsg)>>)>>),
            [type |-> "union"]}

NeedRules ==
    {need(r, m) : r \in {Null} \cup StringRules \cup BooleanRules
                          \cup {array(<<item(need(number(<<>>), NoMsg)), max(Num(3), NoMsg)>>),
                                union(<<string(<<>>), number(<<>>)>>),
                                dateAny,
                                need(Null, NoMsg),
                                min(Num(1), NoMsg)},
                  m \in {NoMsg, <<"required!">>}}

\* rule trees with a structural defect, and roots that are not rules
BadRules ==
    {Null, Undef, [rules |-> <<>>], [type |-> "tuple", rules |-> <<>>],
     any(<<min(Num(1), NoMsg), max(Num(2), NoMsg)>>),
     min(Num(1), NoMsg),
     equal(sA, NoMsg),
     mismatch(NoMsg),
     item(string(<<>>)),
     prop(sA, string(<<>>)),
     string(<<less(Num(1), NoMsg)>>),
     string(<<pattern(reBad, NoMsg)>>),
     string(<<pattern(reNoSlash, NoMsg)>>),
     string(<<pattern(Num(1), NoMsg)>>),
     string(<<min(sA, NoMsg)>>),
     string(<<Null>>),
     number(<<range(Num(3), Num(1), NoMsg)>>),
     number(<<equal(sA, NoMsg)>>),
     object(<<min(Num(1), NoMsg)>>),
     object(<<prop(sA, string(<<min(Num(1), NoMsg), less(Num(1), NoMsg)>>))>>),
     array(<<item(string(<<pattern(reBad, NoMsg)>>))>>),
     array(<<prop(Num(0), need(string(<<>>), NoMsg))>>)}

\* the messages a rule author passes: none, a text, the empty text
Messages == {NoMsg, <<"custom">>, <<"">>}

\* every check rule under each container that takes it, one check per container,
\* mismatch alone in a container, and need with and without a sub rule
StringChecks(m) == {equal(sA, m), min(Num(2), m), max(Num(1), m), pattern(reDigits, m)}
NumberChecks(m) == {equal(Num(2), m), min(Num(2), m), max(Num(2), m), less(Num(2), m),
                    more(Num(2), m), range(Num(1), Num(3), m)}
DateChecks(m) == {equal(d2019m, m), before(d2019m, m), after(d2019m, m), begin(d2019m, m),
                  end(d2019m, m), between(d2019, d2020, m)}
ArrayChecks(m) == {min(Num(2), m), max(Num(2), m)}
CheckRules ==
    UNION {{string(<<c>>) : c \in StringChecks(m) \cup {mismatch(m)}}
             \cup {number(<<c>>) : c \in NumberChecks(m) \cup {mismatch(m)}}
             \cup {date(<<c>>) : c \in DateChecks(m) \cup {mismatch(m)}}
             \cup {array(<<c>>) : c \in ArrayChecks(m)}
             \cup {boolean(<<equal(Bool(TRUE), m)>>), need(Null, m), need(number(<<>>), m)}
           : m \in Messages}

\* number(range(10, 100))
scenarioRange == number(<<range(Num(10), Num(100), NoMsg)>>)
\* date(between('2019-01-01', '2020-01-01'))
scenario3 == date(<<between(d2019, d2020, NoMsg)>>)

ScenarioRules == CheckRules \cup {scenarioRange, scenario3}

\* one well-formed rule of every kind
OneOfEachKind ==
    {mismatch(NoMsg), equal(sA, NoMsg), min(Num(1), NoMsg), max(Num(3), NoMsg),
     less(Num(3), NoMsg), more(Num(1), NoMsg), range(Num(1), Num(3), NoMsg),
     before(d2020, NoMsg), after(d2019, NoMsg), begin(d2019, NoMsg), end(d2020, NoMsg),
     between(d2019, d2020, NoMsg), pattern(reA, NoMsg),
     any(<<min(Num(1), NoMsg), max(Num(3), NoMsg)>>), need(Null, NoMsg),
     prop(sA, string(<<>>)), prop(Num(0), string(<<>>)), item(string(<<>>)),
     object(<<>>), string(<<>>), number(<<>>), boolean(<<>>), date(<<>>), array(<<>>),
     union(<<string(<<>>), number(<<>>)>>)}

\* an object and an array container around each of them
ContainerChildRules == {object(<<c>>) : c \in OneOfEachKind} \cup {array(<<c>>) : c \in OneOfEachKind}

\* values tried as a numeric bound and as a date boundary
NumBounds == {Undef, Null, NaN, s5, Bool(TRUE), Num(0), Num(1), Num(2), Infinity}
DateBounds == {Undef, Null, Num(1), sA, sEmpty, InvalidDate, d2019, d2020,
               NewDate(d2019), NewDate(d2020)}
ValueKinds == {"min", "max", "less", "more"}
DateKinds == {"before", "after", "begin", "end"}

\* containers around one bound rule, well formed or not
BoundRules ==
    {number(<<range(a, b, NoMsg)>>) : a, b \in NumBounds}
      \cup {number(<<[type |-> k, value |-> x]>>) : k \in ValueKinds, x \in NumBounds}
      \cup {string(<<min(x, NoMsg)>>) : x \in NumBounds}
      \cup {array(<<max(x, NoMsg)>>) : x \in NumBounds}
      \cup {number(<<[type |-> k]>>) : k \in ValueKinds \cup {"range"}}
      \cup {number(<<[type |-> "range", min |-> Num(1)]>>),
            number(<<[type |-> "range", max |-> Num(1)]>>)}
      \cup {date(<<[type |-> k, value |-> x]>>) : k \in DateKinds, x \in DateBounds}
      \cup {date(<<between(a, b, NoMsg)>>) : a, b \in DateBounds}
      \cup {date(<<[type |-> k]>>) : k \in DateKinds \cup {"between"}}
      \cup {date(<<[type |-> "between", begin |-> d2019]>>),
            date(<<[type |-> "between", end |-> d2020]>>)}

\* values tried as the value of an equal rule
EqualValues == {Undef, Null, NaN, Num(1), Num(2), Infinity, sA, sEmpty, d2019m, d2021,
                Bool(TRUE), Bool(FALSE), NewDate(d2019m), InvalidDate,
                Arr(<<>>), Obj(<<>>, <<>>)}

\* a string, number, boolean or date container around one equal rule
EqualRules ==
    {[type |-> k, rules |-> <<equal(x, NoMsg)>>] :
        k \in {"string", "number", "boolean", "date"}, x \in EqualValues}
      \cup {[type |-> k, rules |-> <<[type |-> "equal"]>>] :
        k \in {"string", "number", "boolean", "date"}}

\* an equal rule that is well formed under a container of the kind
EqualFor(kind) ==
    CASE kind = "string" -> equal(sA, NoMsg)
      [] kind = "number" -> equal(Num(1), NoMsg)
      [] kind = "boolean" -> equal(Bool(TRUE), NoMsg)
      [] kind = "date" -> equal(d2019, NoMsg)

\* one well-formed rule of each kind, as a child of an any rule under a
\* container of the kind
AnyChildrenFor(kind) == {c \in OneOfEachKind : c.type # "equal"} \cup {EqualFor(kind)}

\* a string, number, boolean or date container around an any rule of two
\* children: one rule of any kind next to a second equal rule
AnyChildRules ==
    UNION {UNION {{[type |-> k, rules |-> <<any(<<c, EqualFor(k)>>)>>],
                   [type |-> k, rules |-> <<any(<<EqualFor(k), c>>)>>]} :
                     c \in AnyChildrenFor(k)} :
              k \in {"string", "number", "boolean", "date"}}

\* what may stand where prop, item and need expect their sub rule
SubCandidates ==
    OneOfEachKind \cup {Null, Undef, sA, [type |-> "tuple"], [rules |-> <<>>],
                        need(need(Null, NoMsg), NoMsg), need(string(<<>>), NoMsg),
                        need(min(Num(1), NoMsg), NoMsg)}
\* what may stand as the name of a prop rule
PropNames == {Undef, Null, sEmpty, sA, Num(0), Num(1)}

\* prop under object, item under array and need at the root around each of them
BinderRules ==
    {object(<<prop(n, c)>>) : n \in PropNames, c \in SubCandidates}
      \cup {object(<<[type |-> "prop", rule |-> c]>>) : c \in SubCandidates}
      \cup {object(<<[type |-> "prop", name |-> sA]>>), array(<<[type |-> "item"]>>)}
      \cup {array(<<item(c)>>) : c \in SubCandidates}
      \cup {need(c, NoMsg) : c \in SubCandidates}

\* what may stand as a child of a union
UnionChildCandidates ==
    OneOfEachKind \cup {Null, Undef, [rules |-> <<>>], [type |-> "tuple"],
                        [type |-> "constructor"], [type |-> "toString"],
                        [type |-> "__proto__"]}

\* a union of a string and a number branch with each of them before or after
UnionChildRules ==
    {union(<<string(<<>>), number(<<>>), c>>) : c \in UnionChildCandidates}
      \cup {union(<<c, string(<<>>), number(<<>>)>>) : c \in UnionChildCandidates}

\* children of a string container: two that compile, one that is skipped
\* (mismatch) and four that fail, each for its own reason
BreadcrumbChildren ==
    {min(Num(1), NoMsg), max(Num(3), NoMsg), mismatch(NoMsg), min(sA, NoMsg),
     less(Num(1), NoMsg), pattern(reBad, NoMsg), Null}
\* props whose sub rule compiles, fails, or fails one level further down
BreadcrumbProps ==
    {prop(sA, string(<<>>)), prop(sA, string(<<min(sA, NoMsg)>>)),
     prop(Num(0), number(<<max(Num(1), NoMsg), less(sA, NoMsg)>>)),
     prop(sAA, array(<<item(need(string(<<min(sA, NoMsg)>>), NoMsg))>>)),
     prop(sA, min(Num(1), NoMsg)), prop(sEmpty, string(<<>>))}

\* string containers of up to MaxCrumb of the children, object containers of
\* up to MaxChildren of the props
MaxCrumb == 3
BreadcrumbRules ==
    {string(cs) : cs \in SeqsUpTo(BreadcrumbChildren, MaxCrumb)}
      \cup {object(cs) : cs \in SeqsUpTo(BreadcrumbProps, MaxChildren)}

\* every union of the union family, bare and wrapped in need
UnionNeedRules ==
    UnionRules \cup {need(u, NoMsg) : u \in UnionRules}
      \cup {need(union(<<string(<<>>), number(<<>>)>>), <<"one is required">>),
            union(<<string(<<>>), mismatch(<<"no kind fits">>), boolean(<<>>)>>)}

\* pattern rules written by hand around a RegExp object: /a/g, /a/y and /a/
patternAg == [type |-> "pattern", regex |-> RegExpObject(<<"a">>, <<"g">>)]
patternAy == [type |-> "pattern", regex |-> RegExpObject(<<"a">>, <<"y">>)]
patternA == [type |-> "pattern", regex |-> RegExpObject(<<"a">>, <<>>)]

\* rule trees that hold no RegExp object: the factories build these
FrameRulesPlain ==
    {string(<<pattern(reA, NoMsg)>>), string(<<pattern(reAg, NoMsg)>>),
     date(<<before(d2020, NoMsg)>>), date(<<equal(d2019m, NoMsg)>>),
     object(<<prop(sA, date(<<after(d2019, NoMsg)>>))>>),
     array(<<item(date(<<>>))>>),
     scenario1, scenario2, scenario3,
     need(union(<<string(<<>>), number(<<>>)>>), NoMsg),
     union(<<dateAny, number(<<>>), string(<<max(Num(3), NoMsg)>>)>>)}
\* rule trees that hold one
FrameRulesRegExp ==
    {string(<<patternAg>>), string(<<patternAy>>), string(<<patternA>>),
     string(<<mismatch(NoMsg), any(<<min(Num(3), NoMsg), patternAg>>)>>),
     object(<<prop(sA, string(<<patternAg>>))>>),
     array(<<item(need(string(<<patternAg>>), NoMsg))>>),
     union(<<string(<<patternA>>), number(<<>>), string(<<patternAg>>)>>)}
FrameRules == FrameRulesPlain \cup FrameRulesRegExp

AllRules == PrimitiveRules \cup AnyRules \cup UnionRules \cup NeedRules \cup BadRules

Init == InitWith(AllRules)
Spec == Init /\ [][Next]_vars

\* the same program started on one family of rules
SpecPrimitive == InitWith(PrimitiveRules) /\ [][Next]_vars
SpecAny == InitWith(AnyRules) /\ [][Next]_vars
SpecUnion == InitWith(UnionRules) /\ [][Next]_vars
SpecNeed == InitWith(NeedRules) /\ [][Next]_vars
SpecFrame == InitWith(FrameRules) /\ [][Next]_vars
SpecUnionNeed == InitWith(UnionNeedRules) /\ [][Next]_vars
SpecBreadcrumb == InitWith(BreadcrumbRules) /\ [][Next]_vars
SpecUnionChild == InitWith(UnionChildRules) /\ [][Next]_vars
SpecBinder == InitWith(BinderRules) /\ [][Next]_vars
SpecAnyChild == InitWith(AnyChildRules) /\ [][Next]_vars
SpecEqual == InitWith(EqualRules) /\ [][Next]_vars
SpecBounds == InitWith(BoundRules) /\ [][Next]_vars
SpecArray == InitWith(ArrayRules) /\ [][Next]_vars
SpecContainerChild == InitWith(ContainerChildRules) /\ [][Next]_vars
SpecObject == InitWith(ObjectRules) /\ [][Next]_vars
SpecChecks == InitWith(ScenarioRules) /\ [][Next]_vars

\* how a call ended, without the closure and the trace
Out(r) == [ok |-> r.ok, kind |-> r.kind, msg |-> r.msg]

(***************************************************************************)
(* The properties.                                                         *)
(***************************************************************************)

\* C1: calling the same validator on the same input any number of times in a
\* row gives the same outcome each time (success, or a ValidationError with
\* the same message): the latest call ended as the first call of the run did.
C1_Idempotence == Called => outcome = first

\* C2: a compiled primitive container that is not wrapped in required accepts
\* undefined and null, and runs none of its child checks on them (only the
\* container's own closure is called).
C2_Optionality ==
    (pc = "ready" /\ Called /\ RuleType(rule) \in PRIMITIVE /\ IsNullish(input))
        => (outcome.ok /\ trace = << <<>> >>)

\* a container with at least one compiled child check was called on null
C2_Witness ==
    /\ pc = "ready" /\ Called
    /\ RuleType(rule) \in PRIMITIVE
    /\ Len(validator.validators) > 0
    /\ input = Null
    /\ outcome.ok

\* C3: the validator of required(R) throws ValidationError on undefined and on
\* null without calling R's validator; required() without a sub rule throws
\* only on undefined and null; on every other input required(R) ends exactly
\* as R's validator does on that input.
C3_RequiredStrictness ==
    [][(pc = "ready" /\ RuleType(rule) = "need") =>
          IF IsNullish(input')
          THEN ~outcome'.ok /\ outcome'.kind = "ValidationError" /\ trace' = << <<>> >>
          ELSE IF RuleFalsy(rule.rule) THEN outcome'.ok
          ELSE outcome' = Out(Run(validator.validator[1], input', <<1>>))]_vars

\* required(R) with a sub rule R was called on null and threw
C3_Witness ==
    /\ pc = "ready" /\ Called
    /\ RuleType(rule) = "need"
    /\ ~RuleFalsy(rule.rule)
    /\ input = Null
    /\ ~outcome.ok


RightKind(type, x) ==
    IF type = "date" /\ x.t = "string" THEN ~IsNaN(NewDate(x))
    ELSE /\ ~IsNullish(x)
         /\ getInputType(x) = type
         /\ x.t \in {"number", "date"} => ~x.nan

\* the input as the children of a container of the given type see it
Coerced(type, x) == IF type = "date" /\ x.t = "string" THEN NewDate(x) ELSE x

\* the positions of the direct children under `path` that a call ran, in call order
ChildCalls(tr, path) ==
    LET n == Len(path)
        ps == SelectSeq(tr, LAMBDA p : Len(p) = n + 1 /\ SubSeq(p, 1, n) = path)
    IN  [i \in 1..Len(ps) |-> ps[i][n + 1]]

UpTo(k) == [i \in 1..k |-> i]
MinOf(S) == CHOOSE k \in S : \A o \in S : k <= o

\* C5: a primitive container given an input of its kind runs its retained
\* children in declaration order; it accepts iff every child accepts, and
\* otherwise throws exactly the error of the first rejecting child, having
\* called no child after it.
C5_AndSemantics ==
    [][(pc = "ready" /\ RuleType(rule) \in PRIMITIVE /\ RightKind(rule.type, input')) =>
          LET x == Coerced(rule.type, input')
              vs == validator.validators
              res(i) == Run(vs[i], x, <<i>>)
              bad == {i \in 1..Len(vs) : ~res(i).ok}
          IN  IF bad = {}
              THEN outcome'.ok /\ ChildCalls(trace', <<>>) = UpTo(Len(vs))
              ELSE /\ ~outcome'.ok
                   /\ outcome'.kind = res(MinOf(bad)).kind
                   /\ outcome'.msg = res(MinOf(bad)).msg
                   /\ ChildCalls(trace', <<>>) = UpTo(MinOf(bad))]_vars

\* a container of two children was called on an input its first child rejects
\* and its second child accepts
C5_Witness ==
    /\ pc = "ready" /\ Called
    /\ RuleType(rule) \in PRIMITIVE
    /\ RightKind(rule.type, input)
    /\ Len(validator.validators) = 2
    /\ ~outcome.ok
    /\ ChildCalls(trace, <<>>) = <<1>>
    /\ Run(validator.validators[2], Coerced(rule.type, input), <<2>>).ok

\* C6: the validator of any(c1..cn) calls the children in declaration order
\* and succeeds at the first one that accepts, calling none after it; it
\* throws only when every child rejects, and the one ValidationError then
\* carries every child's message numbered 1..n in declaration order.
C6_OrSemantics ==
    [][(/\ pc = "ready"
        /\ RuleType(rule) \in PRIMITIVE
        /\ Len(validator.validators) = 1
        /\ validator.validators[1].fn = "any"
        /\ RightKind(rule.type, input')) =>
          LET x == Coerced(rule.type, input')
              cs == validator.validators[1].validators
              res(i) == Run(cs[i], x, <<1, i>>)
              good == {i \in 1..Len(cs) : res(i).ok}
          IN  IF good # {}
              THEN outcome'.ok /\ ChildCalls(trace', <<1>>) = UpTo(MinOf(good))
              ELSE /\ ~outcome'.ok
                   /\ outcome'.kind = "ValidationError"
                   /\ outcome'.msg = "not eligible: ("
                                       \o JoinStr([i \in 1..Len(cs) |-> NumStr(i) \o ". " \o res(i).msg], ", ")
                                       \o ")"
                   /\ ChildCalls(trace', <<1>>) = UpTo(Len(cs))]_vars

\* an any of three children was called on an input that only its last child
\* accepts, and on one that none accepts
C6_Witness ==
    /\ pc = "ready" /\ Called
    /\ RuleType(rule) = "string"
    /\ Len(validator.validators) = 1
    /\ validator.validators[1].fn = "any"
    /\ Len(validator.validators[1].validators) = 3
    /\ RightKind(rule.type, input)
    /\ ChildCalls(trace, <<1>>) = <<1, 2, 3>>
    /\ ~outcome.ok

\* the message of a mismatch child that carries one, if any
MismatchOverrides(r) ==
    {r.rules[i].message : i \in {j \in 1..Len(r.rules) :
                                   RuleType(r.rules[j]) = "mismatch" /\ HasMessage(r.rules[j])}}

\* the kinds a union declares, in the order of their first declaration
RECURSIVE DeclaredKinds(_, _, _)
DeclaredKinds(rules, i, acc) ==
    IF i > Len(rules) THEN acc
    ELSE IF RuleType(rules[i]) = "mismatch" \/ IndexOf(acc, rules[i].type) # 0
    THEN DeclaredKinds(rules, i + 1, acc)
    ELSE DeclaredKinds(rules, i + 1, Append(acc, rules[i].type))

\* the default message of a union that no branch fits
UnionDefaultMessage(kinds, found) ==
    "Unexpected type: can be '" \o kinds[1] \o ", " \o JoinStr(Tail(kinds), ",")
      \o "' but found '" \o found \o "'"

\* the union's error when the input's kind fits no branch
IsUnionMismatch(r, o, found) ==
    /\ ~o.ok
    /\ o.kind = "ValidationError"
    /\ IF MismatchOverrides(r) # {} THEN o.msg \in MismatchOverrides(r)
       ELSE o.msg = UnionDefaultMessage(DeclaredKinds(r.rules, 1, <<>>), found)

C8_UnionDateWidening ==
    [][(/\ pc = "ready"
        /\ RuleType(rule) = "union"
        /\ IndexOf(validator.supportTypes, "date") # 0
        /\ input'.t = "string") =>
          LET kinds == DeclaredKinds(rule.rules, 1, <<>>)
              kd == IndexOf(kinds, "date")
              ks == IndexOf(kinds, "string")
              cands == (IF IsNaN(NewDate(input')) THEN {} ELSE {kd}) \cup ({ks} \ {0})
              res(k) == Run(validator.typeValidator[k], input', <<k>>)
              good == {k \in cands : res(k).ok}
              tried == IF good = {} THEN cands ELSE {k \in cands : k <= MinOf(good)}
              called == ChildCalls(trace', <<>>)
          IN  /\ validator.supportTypes = kinds
              /\ IF cands = {}
                 THEN IsUnionMismatch(rule, outcome', "string") /\ trace' = << <<>> >>
                 ELSE /\ outcome'.ok <=> good # {}
                      /\ {called[i] : i \in 1..Len(called)} = tried
                      /\ \A i, j \in 1..Len(called) : i < j => called[i] < called[j]]_vars

\* a union of a date branch and a string branch was called on a string that
\* parses to a date; the date branch rejected it and the string branch accepted
C8_Witness ==
    /\ pc = "ready" /\ Called
    /\ RuleType(rule) = "union"
    /\ validator.supportTypes = <<"date", "string">>
    /\ input.t = "string"
    /\ ~IsNaN(NewDate(input))
    /\ ChildCalls(trace, <<>>) = <<1, 2>>
    /\ outcome.ok

\* an any rule with fewer than two children, or a union whose children cover
\* fewer than two distinct primitive kinds
Degenerate(r) ==
    \/ /\ RuleType(r) = "union"
       /\ Cardinality({RuleType(SubRules(r)[i]) : i \in 1..Len(SubRules(r))} \cap PRIMITIVE) < 2
    \/ /\ RuleType(r) \in PRIMITIVE
       /\ \E i \in 1..Len(SubRules(r)) :
              /\ RuleType(SubRules(r)[i]) = "any"
              /\ Len(SubRules(SubRules(r)[i])) < 2

\* C9: compiling an any rule that yields fewer than two compiled children, or
\* a union rule whose children cover fewer than two distinct primitive kinds,
\* throws SchemaError: no validator is ever produced for them.
C9_DegenerateRejected == (pc # "new" /\ Degenerate(rule)) => pc = "failed"

LengthMessage == "array length must be less or equal to 3"

\* every element of the array is a number other than NaN
AllNumbers(x) == \A i \in 1..Len(x.v) : x.v[i].t = "number" /\ ~x.v[i].nan

\* C10 as stated: array(item(required(number())), min(1), max(3)) rejects
\* every array longer than 3 with the array-length message, whatever its
\* elements are.
C10_LengthAlways ==
    (pc = "ready" /\ Called /\ rule = scenario2 /\ input.t = "array" /\ Len(input.v) > 3)
        => (~outcome.ok /\ outcome.msg = LengthMessage)

\* C10 amended: array(item(required(number())), min(1), max(3)) rejects every
\* array longer than 3; with the array-length message when all its elements
\* are valid numbers, and otherwise with the item error of its first element
\* that is not one, because item is declared before max.
C10_LengthAfterItems ==
    (pc = "ready" /\ Called /\ rule = scenario2 /\ input.t = "array" /\ Len(input.v) > 3)
        => /\ ~outcome.ok
           /\ outcome.kind = "ValidationError"
           /\ IF AllNumbers(input) THEN outcome.msg = LengthMessage
              ELSE LET i == MinOf({j \in 1..Len(input.v) : input.v[j].t # "number"})
                   IN  outcome.msg = "Invalid item [" \o NumStr(i - 1) \o "]: Unexpected type: require 'number' but found '"
                                       \o getInputType(input.v[i]) \o "'"

\* the rule was called on an array of four valid numbers
C10_Witness ==
    /\ pc = "ready" /\ Called
    /\ rule = scenario2
    /\ input.t = "array" /\ Len(input.v) = 4
    /\ AllNumbers(input)
    /\ outcome.msg = LengthMessage


\* the kinds a root rule may have
RootKinds == {"need", "object", "string", "number", "array", "boolean", "date", "union"}

C12_OverrideWins ==
    (pc = "ready" /\ Called /\ ~outcome.ok) =>
        /\ (RuleType(rule) = "need" /\ "message" \in DOMAIN rule /\ IsNullish(input))
              => outcome.msg = rule.message
        /\ (/\ RuleType(rule) \in PRIMITIVE
            /\ Len(rule.rules) = 1
            /\ "message" \in DOMAIN rule.rules[1]
            /\ (RuleType(rule.rules[1]) = "mismatch" \/ RightKind(rule.type, input)))
              => outcome.msg = rule.rules[1].message

\* the one child of a container that holds exactly one child of the given kind
OnlyChild(kind) ==
    IF RuleType(rule) \in PRIMITIVE /\ Len(SubRules(rule)) = 1 /\ RuleType(rule.rules[1]) = kind
    THEN <<rule.rules[1]>> ELSE <<>>

\* C13: the validator of number(range(lo, hi)) with lo < hi accepts a numeric
\* input x iff lo <= x <= hi, both bounds included.
C13_RangeInclusive ==
    (/\ pc = "ready" /\ Called
     /\ RuleType(rule) = "number"
     /\ OnlyChild("range") # <<>>
     /\ input.t = "number" /\ ~input.nan) =>
        LET r == OnlyChild("range")[1]
        IN  /\ r.min.v < r.max.v
            /\ outcome.ok <=> (r.min.v <= input.v /\ input.v <= r.max.v)

\* number(range(10, 100)) was called on 100 and accepted it
C13_Witness ==
    /\ pc = "ready" /\ Called
    /\ rule = scenarioRange
    /\ input = Num(100)
    /\ outcome.ok

\* the messages of the mismatch children of a container
MismatchMessages(r) ==
    {r.rules[i].message : i \in {j \in 1..Len(r.rules) :
                                   RuleType(r.rules[j]) = "mismatch" /\ "message" \in DOMAIN r.rules[j]}}

\* the error of a container whose type check failed on an input of the kind `found`
IsTypeMismatch(r, o, found) ==
    /\ ~o.ok
    /\ o.kind = "ValidationError"
    /\ \/ o.msg = "Unexpected type: require '" \o r.type \o "' but found '" \o found \o "'"
       \/ o.msg \in MismatchMessages(r)

\* C14: a date container given a string that parses to a valid date checks
\* its children on the parsed date, so the call ends as a call on that date
\* ends; given a string that does not parse it throws its type mismatch
\* error, and no child is called.
C14_DateCoercion ==
    (pc = "ready" /\ Called /\ RuleType(rule) = "date" /\ input.t = "string") =>
        IF IsNaN(NewDate(input))
        THEN IsTypeMismatch(rule, outcome, "string") /\ trace = << <<>> >>
        ELSE /\ outcome = Out(Run(validator, NewDate(input), <<>>))
             /\ ChildCalls(trace, <<>>) # <<>> \/ validator.validators = <<>>

\* date(between('2019-01-01', '2020-01-01')) was called on "2021-01-01" and
\* threw the between message
C14_Witness ==
    /\ pc = "ready" /\ Called
    /\ rule = scenario3
    /\ input = d2021
    /\ outcome = [ok |-> FALSE, kind |-> "ValidationError",
                  msg |-> "Date must between 2019-01-01 and 2020-01-01"]

\* the object's own value under the key, undefined when it has no such key
OwnValue(x, name) ==
    IF \E i \in 1..Len(x.k) : x.k[i] = ChStr(name.v)
    THEN x.v[CHOOSE i \in 1..Len(x.k) : x.k[i] = ChStr(name.v)]
    ELSE Undef

\* the call of object(prop(name, R)) on an object ended as R's validator ends
\* on the value x, its error wrapped under the property's name
PropDelegates(p, x) ==
    LET inner == Run(validator.validators[1].validator, x, <<1, 1>>)
    IN  /\ outcome.ok <=> inner.ok
        /\ ~inner.ok => /\ outcome.kind = "ValidationError"
                        /\ outcome.msg = "Invalid property \"" \o ChStr(p.name.v) \o "\": " \o inner.msg
        /\ SelectSeq(trace, LAMBDA q : Len(q) = 2) = << <<1, 1>> >>

InheritedNames == {"constructor", "toString", "valueOf", "__proto__", "__defineGetter__"}

Denoted(regex) ==
    IF regex.t # "string" \/ ~MatchLiteral(regex.v).ok THEN [ok |-> FALSE]
    ELSE NewRegExp(MatchLiteral(regex.v).pat, MatchLiteral(regex.v).flag)

\* C16: a string container holding a pattern given as a literal /body/flags
\* compiles iff the literal has that form and its body and flags make a valid
\* expression, and throws SchemaError otherwise; the compiled validator
\* accepts a string input iff the expression matches it.
C16_PatternRule ==
    (pc # "new" /\ RuleType(rule) = "string" /\ OnlyChild("pattern") # <<>>) =>
        LET exp == Denoted(rule.rules[1].regex)
        IN  /\ pc = "ready" <=> exp.ok
            /\ (pc = "ready" /\ Called /\ input.t = "string")
                  => (outcome.ok <=> RegExpTest(exp, input.v, 0).found)

\* C17: under a number container min(v) accepts x iff x >= v, max(v) iff
\* x <= v, less(v) iff x < v and more(v) iff x > v; under a string or an array
\* container min(v) and max(v) compare the input's length in the same way.
C17_Bounds ==
    (/\ pc = "ready" /\ Called
     /\ \E k \in {"min", "max", "less", "more"} : OnlyChild(k) # <<>>
     /\ RightKind(rule.type, input)) =>
        LET c == rule.rules[1]
            b == c.value.v
            x == IF rule.type = "number" THEN input.v ELSE Len(input.v)
        IN  /\ rule.type \in {"number", "string", "array"}
            /\ rule.type # "number" => c.type \in {"min", "max"}
            /\ outcome.ok <=> CASE c.type = "min" -> x >= b
                                [] c.type = "max" -> x <= b
                                [] c.type = "less" -> x < b
                                [] c.type = "more" -> x > b

\* a string of length 2 was accepted by string(min(2))
C17_Witness ==
    /\ pc = "ready" /\ Called
    /\ OnlyChild("min") # <<>>
    /\ rule.type = "string"
    /\ rule.rules[1].value = Num(2)
    /\ input = sAA
    /\ outcome.ok

\* C18: under a date container, with t the timestamp of the input (of the
\* parsed date when the input is a string) and b the timestamp of the
\* boundary, before(b) accepts iff t < b, after(b) iff t > b, begin(b) iff
\* t >= b, end(b) iff t <= b, and between(b1, b2) iff b1 <= t <= b2.
C18_DateRelations ==
    (/\ pc = "ready" /\ Called
     /\ RuleType(rule) = "date"
     /\ \E k \in {"before", "after", "begin", "end", "between"} : OnlyChild(k) # <<>>
     /\ RightKind("date", input)) =>
        LET c == rule.rules[1]
            t == Coerced("date", input).v
        IN  outcome.ok <=> CASE c.type = "before" -> t < NewDate(c.value).v
                             [] c.type = "after" -> t > NewDate(c.value).v
                             [] c.type = "begin" -> t >= NewDate(c.value).v
                             [] c.type = "end" -> t <= NewDate(c.value).v
                             [] c.type = "between" -> /\ NewDate(c.begin).v <= t
                                                      /\ t <= NewDate(c.end).v

\* date(before(b)) was called on the date b itself and rejected it
C18_Witness ==
    /\ pc = "ready" /\ Called
    /\ RuleType(rule) = "date"
    /\ OnlyChild("before") # <<>>
    /\ input = NewDate(rule.rules[1].value)
    /\ ~outcome.ok

\* the kind of an input as a container of the given type sees it: a string
\* that parses is a date to a date container
KindAfterCoercion(type, x) ==
    IF type = "date" /\ x.t = "string" /\ ~IsNaN(NewDate(x)) THEN "date" ELSE getInputType(x)

\* a number that is NaN or not finite, or a Date that is invalid
NonFinite(x) ==
    \/ x.t = "number" /\ (x.nan \/ x = Infinity)
    \/ x.t = "date" /\ x.nan

\* C19: a container given an input that is neither null nor undefined and
\* whose kind, after date coercion, is not the container's kind throws before
\* running any child, with its mismatch message if one was given and else
\* with the default message naming the expected and the found kind; a number
\* container given NaN or another non-finite number and a date container
\* given an invalid Date are rejected in the same way.
C19_TypeCheck ==
    (/\ pc = "ready" /\ Called
     /\ RuleType(rule) \in PRIMITIVE
     /\ ~IsNullish(input)
     /\ KindAfterCoercion(rule.type, input) # rule.type \/ NonFinite(input)) =>
        /\ ~outcome.ok
        /\ outcome.kind = "ValidationError"
        /\ trace = << <<>> >>
        /\ IF MismatchMessages(rule) # {} THEN outcome.msg \in MismatchMessages(rule)
           ELSE \E found \in {getInputType(input), "invalid number", "invalid date"} :
                   outcome.msg = "Unexpected type: require '" \o rule.type
                                   \o "' but found '" \o found \o "'"

\* the kinds of child an object and an array container take
ChildWhitelist(type) ==
    IF type = "object" THEN {"prop", "mismatch"} ELSE {"min", "max", "item", "mismatch"}

\* C20: compiling an object container succeeds only if every child is a prop
\* or a mismatch rule, and compiling an array container only if every child
\* is a min, max, item or mismatch rule; a child of any other kind makes the
\* compilation throw SchemaError.
C20_ChildWhitelists ==
    (/\ pc # "new"
     /\ RuleType(rule) \in {"object", "array"}
     /\ \E i \in 1..Len(SubRules(rule)) : RuleType(rule.rules[i]) \notin ChildWhitelist(rule.type))
        => pc = "failed"

\* C21: the validator of array(item(R)) given an array applies R's validator
\* to the elements from index 0 on; it accepts iff every element passes, and
\* otherwise throws `Invalid item [i]: <inner>` for the smallest failing index
\* i, having examined no element after i.
C21_ItemFailFast ==
    (pc = "ready" /\ Called /\ RuleType(rule) = "array" /\ OnlyChild("item") # <<>>
       /\ input.t = "array") =>
        LET sub == validator.validators[1].validator
            res(j) == Run(sub, input.v[j], <<1, 1>>)
            bad == {j \in 1..Len(input.v) : ~res(j).ok}
            examined == Len(SelectSeq(trace, LAMBDA q : q = <<1, 1>>))
        IN  IF bad = {}
            THEN outcome.ok /\ examined = Len(input.v)
            ELSE /\ ~outcome.ok
                 /\ outcome.kind = "ValidationError"
                 /\ outcome.msg = "Invalid item [" \o NumStr(MinOf(bad) - 1) \o "]: "
                                    \o res(MinOf(bad)).msg
                 /\ examined = MinOf(bad)

\* an array whose elements 1 and 3 fail was rejected for element 1, after two
\* elements were examined
C21_Witness ==
    /\ pc = "ready" /\ Called
    /\ rule = array(<<item(need(number(<<>>), NoMsg))>>)
    /\ input = Arr(<<Num(1), sA, Num(1), sA>>)
    /\ outcome.msg = "Invalid item [1]: Unexpected type: require 'number' but found 'string'"
    /\ Len(SelectSeq(trace, LAMBDA q : q = <<1, 1>>)) = 2

RECURSIVE CombinedFrom(_, _)
\* "R<i>. e_i; R<i+1>. e_(i+1); ..." for the messages from position i on
CombinedFrom(errs, i) ==
    IF i > Len(errs) THEN ""
    ELSE "R" \o NumStr(i) \o ". " \o errs[i]
           \o (IF i < Len(errs) THEN "; " ELSE "") \o CombinedFrom(errs, i + 1)

\* C22: when the union selected candidates for a present input and every one
\* of them rejects it, the union throws a ValidationError whose message is the
\* candidate's own message if one candidate was tried, and otherwise
\* `No rule matched: [R1. e1; R2. e2; ...]` over the messages of exactly the
\* selected candidates in the order tried.
C22_UnionAggregation ==
    (pc = "ready" /\ Called /\ RuleType(rule) = "union" /\ ~IsNullish(input)) =>
        LET kinds == DeclaredKinds(rule.rules, 1, <<>>)
            inputType == getInputType(input)
            sel == SelectSeq([k \in 1..Len(kinds) |-> k],
                             LAMBDA k : \/ kinds[k] = inputType
                                        \/ /\ kinds[k] = "date" /\ input.t = "string"
                                           /\ ~IsNaN(NewDate(input)))
            res(k) == Run(validator.typeValidator[k], input, <<k>>)
            errs == [j \in 1..Len(sel) |-> res(sel[j]).msg]
        IN  (Len(sel) > 0 /\ \A j \in 1..Len(sel) : ~res(sel[j]).ok) =>
              /\ ~outcome.ok
              /\ outcome.kind = "ValidationError"
              /\ outcome.msg = IF Len(sel) = 1 THEN errs[1]
                               ELSE "No rule matched: [" \o CombinedFrom(errs, 1) \o "]"

\* a union of a date, a number and a string branch was called on a date string
\* that the date and the string branch both reject: two messages combined, the
\* number branch absent
C22_Witness ==
    /\ pc = "ready" /\ Called
    /\ rule = union(<<dateAny, number(<<>>), string(<<max(Num(3), NoMsg)>>)>>)
    /\ input = d2019m
    /\ ChildCalls(trace, <<>>) = <<1, 3>>
    /\ ~outcome.ok
    /\ outcome.msg = "No rule matched: [R1. " \o Run(validator.typeValidator[1], input, <<1>>).msg
                       \o "; R2. " \o Run(validator.typeValidator[3], input, <<3>>).msg \o "]"

\* a union was called on an input that selects one branch, which rejected it:
\* the branch's message alone
C22_WitnessSingle ==
    /\ pc = "ready" /\ Called
    /\ rule = union(<<string(<<min(Num(2), NoMsg)>>), number(<<max(Num(3), NoMsg)>>)>>)
    /\ input = Num(4)
    /\ outcome.msg = Run(validator.typeValidator[2], input, <<2>>).msg

\* the field f of rule record c, undefined when the record does not hold it
FieldOf(c, f) == IF f \in DOMAIN c THEN c[f] ELSE Undef
\* a number that is not NaN
ValidNumber(x) == x.t = "number" /\ ~x.nan
\* a valid Date, or a string that parses to one
ValidBoundary(x) == (x.t = "date" /\ ~x.nan) \/ (x.t = "string" /\ ~NewDate(x).nan)

\* the bound rule c is one the claim calls inverted, degenerate or malformed
BadBound(c) ==
    CASE RuleType(c) = "range" ->
           \/ ~ValidNumber(FieldOf(c, "min")) \/ ~ValidNumber(FieldOf(c, "max"))
           \/ c.min.v >= c.max.v
      [] RuleType(c) \in ValueKinds -> ~ValidNumber(FieldOf(c, "value"))
      [] RuleType(c) \in DateKinds -> ~ValidBoundary(FieldOf(c, "value"))
      [] RuleType(c) = "between" ->
           \/ ~ValidBoundary(FieldOf(c, "begin")) \/ ~ValidBoundary(FieldOf(c, "end"))
           \/ NewDate(c.begin).v >= NewDate(c.end).v
      [] OTHER -> FALSE

\* C23: a container around one bound rule fails to compile (new Schema throws
\* SchemaError) whenever the bound rule is a range with min >= max, a between
\* with begin >= end, a range/min/max/less/more whose bound is missing,
\* not a number or NaN, or a before/after/begin/end/between whose boundary is
\* neither a valid Date nor a string that parses to one.
C23_BadBounds ==
    (pc # "new" /\ rule \in BoundRules /\ BadBound(rule.rules[1])) =>
        pc = "failed" /\ thrown # ""

\* range(2, 2) under a number container was refused with the range error
C23_Witness ==
    /\ pc = "failed"
    /\ rule = number(<<range(Num(2), Num(2), NoMsg)>>)
    /\ thrown = "Invalid \"number\" rule (sub rule 1):\n    > Invalid \"range\" rule: \"min\" property must be less or equal to \"max\" property"

\* the value v is one an equal rule under a container of the kind may carry
EqualFits(kind, v) ==
    CASE kind = "number" -> v.t = "number" /\ ~v.nan
      [] kind = "string" -> v.t = "string"
      [] kind = "boolean" -> v.t = "boolean"
      [] kind = "date" -> ValidBoundary(v)

\* the input x of the container's kind is the value v (for dates: the same
\* timestamp)
SameValue(kind, x, v) ==
    IF kind = "date" THEN x.v = NewDate(v).v ELSE x = v

C24_WitnessCompile ==
    /\ pc = "failed"
    /\ rule = number(<<equal(NaN, NoMsg)>>)
    /\ thrown = "Invalid \"number\" rule (sub rule 1):\n    > Invalid \"equal\" rule: \"value\" property must be a valid number"

\* the kinds the claim allows as children of an any rule under a container
AnyWhitelist(kind) ==
    CASE kind = "string" -> {"equal", "min", "max", "pattern"}
      [] kind = "number" -> {"equal", "min", "max", "less", "more", "range"}
      [] kind = "boolean" -> {"equal"}
      [] kind = "date" -> {"equal", "begin", "end", "before", "after", "between"}

\* C25: a string, number, boolean or date container around an any rule of two
\* well-formed children compiles iff both children are of a kind the
\* container's list allows (string: equal, min, max, pattern; number: equal,
\* min, max, less, more, range; boolean: equal; date: equal, begin, end,
\* before, after, between); a nested any or a mismatch among them makes new
\* Schema throw SchemaError.
C25_AnyWhitelist ==
    (pc # "new" /\ rule \in AnyChildRules) =>
        LET cs == rule.rules[1].rules
        IN  /\ (pc = "ready") <=> \A i \in 1..Len(cs) : cs[i].type \in AnyWhitelist(rule.type)
            /\ (pc = "failed") => thrown # ""

\* the same statement for the string, number and date containers alone
C25_AnyWhitelistButBoolean ==
    (pc # "new" /\ rule \in AnyChildRules /\ rule.type # "boolean") =>
        LET cs == rule.rules[1].rules
        IN  /\ (pc = "ready") <=> \A i \in 1..Len(cs) : cs[i].type \in AnyWhitelist(rule.type)
            /\ (pc = "failed") => thrown # ""

\* the kinds the claim allows under prop and item, and under required
BinderKinds == {"need", "object", "string", "number", "array", "boolean", "date", "union"}
RequiredKinds == BinderKinds \ {"need"}

\* s is a rule of one of the kinds
OfKind(s, kinds) == ~IsJsValue(s) /\ RuleType(s) \in kinds
\* the required rule r carries no sub rule or one of a kind it may wrap
RequiredFits(r) ==
    LET s == FieldOf(r, "rule") IN RuleFalsy(s) \/ OfKind(s, RequiredKinds)
\* s may stand under prop or item: one rule of a binder kind, which if it is
\* a required rule wraps what it may
BinderFits(s) == OfKind(s, BinderKinds) /\ (RuleType(s) = "need" => RequiredFits(s))
\* n is a valid property name
NameFits(n) == n \notin {Undef, Null, sEmpty}

\* C26: an object container around one prop rule compiles iff the prop
\* carries one sub rule of a kind in {need, object, string, number, array,
\* boolean, date, union} and a name other than undefined, null and '' (0 is a
\* name); an array container around one item rule compiles iff the item
\* carries one such sub rule; a need rule compiles iff it carries nothing or
\* one rule of a kind in {object, string, number, array, boolean, date,
\* union}, so a need around a need is refused; every refusal is a SchemaError.
C26_Binders ==
    (pc # "new" /\ rule \in BinderRules) =>
        /\ (pc = "failed") => thrown # ""
        /\ (pc = "ready") <=>
             CASE rule.type = "object" ->
                    /\ BinderFits(FieldOf(rule.rules[1], "rule"))
                    /\ NameFits(FieldOf(rule.rules[1], "name"))
               [] rule.type = "array" -> BinderFits(FieldOf(rule.rules[1], "rule"))
               [] rule.type = "need" -> RequiredFits(rule)

\* a required rule around a required rule was refused
C26_Witness ==
    /\ pc = "failed"
    /\ rule = need(need(Null, NoMsg), NoMsg)
    /\ thrown = "Invalid \"need\" rule:\n    > Unexpected rule: 'need'"

\* a prop rule named 0 compiled
C26_WitnessZero ==
    /\ pc = "ready"
    /\ rule = object(<<prop(Num(0), string(<<>>))>>)

\* a prop rule named '' was refused
C26_WitnessEmptyName ==
    /\ pc = "failed"
    /\ rule = object(<<prop(sEmpty, string(<<>>))>>)
    /\ thrown = "Invalid \"object\" rule (sub rule 1):\n    > Invalid \"prop\" rule: \"name\" must be a valid key or index"

\* the kinds the claim allows as children of a union
UnionChildKinds == {"object", "string", "number", "array", "boolean", "date", "mismatch"}

\* C27: a union of a string branch, a number branch and one more child
\* compiles iff that child is a rule of kind object, string, number, array,
\* boolean, date or mismatch; a child that is null or undefined, has no kind,
\* or has any other kind (need, union, any, prop, item, a check rule, an
\* unknown name) makes new Schema throw SchemaError.
C27_UnionChildren ==
    (pc # "new" /\ rule \in UnionChildRules) =>
        /\ (pc = "failed") => thrown # ""
        /\ (pc = "ready") <=>
             \A i \in 1..Len(rule.rules) : OfKind(rule.rules[i], UnionChildKinds)

\* the same statement for children whose kind is not a name that objects
\* inherit and can call ('constructor', 'toString', 'valueOf')
C27_UnionChildrenButInherited ==
    (/\ pc # "new" /\ rule \in UnionChildRules
     /\ \A i \in 1..Len(rule.rules) : RuleType(rule.rules[i]) \notin ProtoCallable) =>
        /\ (pc = "failed") => thrown # ""
        /\ (pc = "ready") <=>
             \A i \in 1..Len(rule.rules) : OfKind(rule.rules[i], UnionChildKinds)

\* the error of compiling the child c of the container parent alone, "" when
\* it compiles or is a mismatch rule (which is recorded, not compiled)
ChildError(c, parent) ==
    IF IsJsValue(c) /\ IsNullish(c)
    THEN "Cannot read properties of " \o c.t \o " (reading 'type')"
    ELSE IF RuleType(c) = "mismatch" THEN ""
    ELSE LET r == createValidator(c, IF parent.type = "object" THEN {"prop", "mismatch"}
                                     ELSE {"equal", "min", "max", "pattern", "any", "mismatch"},
                                  parent)
         IN  IF r.err THEN r.msg ELSE ""

\* `Invalid "<kind>" rule (sub rule <i>):` and the "> " line that follows
ContainerPrefix(kind, i) ==
    "Invalid \"" \o kind \o "\" rule (sub rule " \o NumStr(i) \o "):\n    > "
\* `Invalid "prop" rule of "<name>":` and the "> " line that follows
PropPrefix(name) == "Invalid \"prop\" rule of \"" \o ValStr(name) \o "\":\n    > "

\* C28: a string or object container compiles iff each child compiles alone;
\* otherwise new Schema throws SchemaError whose message is
\* `Invalid "<kind>" rule (sub rule <i>):` for the smallest (1-based) position
\* i of a child that fails, followed by "> " and that child's own error, with
\* nothing about later children; when that child is a prop with a name and a
\* sub rule that fails, its own error is `Invalid "prop" rule of "<name>":`
\* followed by "> " and the sub rule's error.
C28_Breadcrumb ==
    (pc # "new" /\ rule \in BreadcrumbRules) =>
        LET cs == rule.rules
            bad == {i \in 1..Len(cs) : ChildError(cs[i], rule) # ""}
            c == cs[MinOf(bad)]
            sub == createValidator(c.rule, BinderKinds, Undef)
        IN  IF bad = {} THEN pc = "ready"
            ELSE /\ pc = "failed"
                 /\ thrown = ContainerPrefix(rule.type, MinOf(bad)) \o ChildError(c, rule)
                 /\ (RuleType(c) = "prop" /\ NameFits(c.name) /\ sub.err) =>
                      thrown = ContainerPrefix(rule.type, MinOf(bad))
                                 \o PropPrefix(c.name) \o sub.msg

\* a string container whose second and third children both fail named the
\* second one only
C28_Witness ==
    /\ pc = "failed"
    /\ rule = string(<<min(Num(1), NoMsg), less(Num(1), NoMsg), min(sA, NoMsg)>>)
    /\ thrown = "Invalid \"string\" rule (sub rule 2):\n    > Unexpected rule: 'less'"

\* a defect five levels down was reported with every enclosing node listed
C28_WitnessDeep ==
    /\ pc = "failed"
    /\ rule = object(<<prop(sA, string(<<>>)),
                       prop(sAA, array(<<item(need(string(<<min(sA, NoMsg)>>), NoMsg))>>))>>)
    /\ thrown = "Invalid \"object\" rule (sub rule 2):\n    > Invalid \"prop\" rule of \"aa\":\n    > Invalid \"array\" rule (sub rule 1):\n    > Invalid \"item\" rule:\n    > Invalid \"need\" rule:\n    > Invalid \"string\" rule (sub rule 1):\n    > Invalid \"min\" rule: \"value\" property must be a valid number"

\* C29: a compiled union called on undefined or null accepts it, trying no
\* branch and raising no mismatch error; the same union wrapped in need
\* rejects undefined and null with the need rule's message, without calling
\* the union.
C29_UnionOptional ==
    (pc = "ready" /\ Called /\ IsNullish(input) /\ rule \in UnionNeedRules) =>
        /\ trace = << <<>> >>
        /\ IF rule.type = "union" THEN outcome.ok
           ELSE /\ ~outcome.ok
                /\ outcome.kind = "ValidationError"
                /\ outcome.msg = IF HasMessage(rule) THEN rule.message ELSE "value is need"

\* a union with a mismatch message accepted null
C29_Witness ==
    /\ pc = "ready" /\ Called
    /\ rule = union(<<string(<<>>), mismatch(<<"no kind fits">>), boolean(<<>>)>>)
    /\ input = Null
    /\ outcome.ok

\* a union wrapped in need rejected undefined
C29_WitnessNeed ==
    /\ pc = "ready" /\ Called
    /\ rule = need(union(<<string(<<>>), number(<<>>)>>), NoMsg)
    /\ input = Undef
    /\ outcome = [ok |-> FALSE, kind |-> "ValidationError", msg |-> "value is need"]

\* C30: a validator call, whether it returns or throws, leaves the rule tree
\* that Schema.toJSON returns as it was, and the value observed as the
\* caller's input after the call is the value that was passed (a string that
\* a date container coerced is still the string).
C30_NoEffect ==
    [][pc = "ready" => (rule' = rule /\ input' \in InputsFor(rule))]_vars

\* the same statement for rule trees that hold no RegExp object
C30_NoEffectOnPlainRules ==
    [][(pc = "ready" /\ rule \in FrameRulesPlain) =>
          (rule' = rule /\ input' \in InputsFor(rule))]_vars

\* the RegExp object of a hand-written pattern rule was moved by a call
C30_RegExpMoved ==
    /\ pc = "ready" /\ Called
    /\ RuleType(rule) = "string"
    /\ rule.rules = <<[type |-> "pattern",
                       regex |-> [RegExpObject(<<"a">>, <<"g">>) EXCEPT !.lastIndex = 1]]>>
    /\ input = sA
    /\ outcome.ok

====
